---------------------------- MODULE Spec2Model ----------------------------
(***************************************************************************)
(* A model of the ingestion engine of the Yad2 monitor: the listing state  *)
(* store (database.py), the adaptive delay manager and the crawl           *)
(* strategies (app.py) and the proxy manager (proxy_manager.py).           *)
(*                                                                         *)
(* Each component has its own specification (SpecStore, SpecReconcile,     *)
(* SpecPacing, SpecProxy, SpecMonitor, SpecBackfill, ...) over the         *)
(* variables it owns; the variables of the other components keep their     *)
(* initial value.                                                          *)
(***************************************************************************)
EXTENDS Integers, Sequences, FiniteSets, TLC

VARIABLES
    apartments,      \* table apartments: a set of rows [id, price, is_active, last_seen]
    price_history,   \* table price_history: rows [apartment_id, price] in insertion order
    clock,           \* datetime.now() as seen by the store, a logical time
    ret,             \* the last call made on a component and the value it returned
    scrape_logs,         \* table scrape_logs: the events of the last 24 hours, tallied
    current_multiplier,  \* AdaptiveDelayManager.current_multiplier
    delay_multiplier,    \* the setting 'delay_multiplier', None until it is saved
    proxies,             \* ProxyManager.proxies: the list of configured routes
    consecutive_fails,   \* proxy_stats[key]['consecutive_fails'], 0 where absent
    cooldown_proxies,    \* ProxyManager.cooldown_proxies: key -> end of cooldown
    current_proxy_index, \* ProxyManager.current_proxy_index, counted from 0
    datetime_now,        \* datetime.now() as seen by the ProxyManager, in minutes
    pc,                  \* where the crawl is: "idle", inside a strategy, or "done"
    page,                \* the local page of the running strategy
    consecutive_known,   \* scrape_all_pages: the local consecutive_known
    all_apartments,      \* scrape_all_pages: the local all_apartments
    pending_apartments,  \* scrape_full_site: the buffer for periodic saves
    consecutive_empty_batches, \* scrape_full_site: the local of that name
    search_urls,         \* Yad2Monitor.search_urls: the configured search urls
    needs_initial_scrape, \* Yad2Monitor.needs_initial_scrape
    search,              \* run_once: the position of "for search in self.search_urls"
    strategy_runs,       \* per search url, the scrape methods run_once has called on it
    fetch_attempt,       \* fetch_page: the local attempt, NotRunning outside a call
    request_attempt,     \* make_request: the local attempt, NotRunning outside a call
    fetched,             \* the number of calls of fetch_page so far
    batch_args,          \* scrape_full_site: the pages of the batch that wait for a worker
    running,             \* the pages that a worker of the executor is fetching
    results,             \* the listings of the pages of the batch fetched so far
    requested,           \* the pages that the run of scrape_full_site has requested
    proxy_stats,         \* proxy_stats[key]: the counters 'success' and 'fail'
    thread_pc,           \* per thread, the statement of a report it is about to run
    thread_local,        \* per thread, the route it reports on and the value it has read
    reports,             \* per route, the calls of report_success and report_failure made
    iteration,           \* monitor: the local iteration
    all_new,             \* run_once: the local all_new
    all_changes,         \* run_once: the local all_changes
    notified,            \* what the notifier has been handed by send_notifications
    signals              \* the new listings and price changes that monitoring runs stored

storeVars == <<apartments, price_history, clock>>

pacingVars == <<scrape_logs, current_multiplier, delay_multiplier>>

proxyVars == <<proxies, consecutive_fails, cooldown_proxies, current_proxy_index,
               datetime_now>>

vars == <<apartments, price_history, clock, ret,
          scrape_logs, current_multiplier, delay_multiplier,
          proxies, consecutive_fails, cooldown_proxies, current_proxy_index,
          datetime_now,
          pc, page, consecutive_known, all_apartments,
          pending_apartments, consecutive_empty_batches,
          search_urls, needs_initial_scrape, search, strategy_runs,
          fetch_attempt, request_attempt, fetched,
          batch_args, running, results, requested,
          proxy_stats, thread_pc, thread_local, reports,
          iteration, all_new, all_changes, notified, signals>>

monitorVars == <<consecutive_known, all_apartments>>

backfillVars == <<pending_apartments, consecutive_empty_batches>>

cycleVars == <<search_urls, needs_initial_scrape, search, strategy_runs>>

\* the variables of the monitor object outside the two strategies
fetchVars == <<fetch_attempt, request_attempt, fetched>>

engineVars == <<cycleVars, fetchVars>>

\* the ThreadPoolExecutor of scrape_full_site and the requests of its run
poolVars == <<batch_args, running, results, requested>>

\* the counters of the routes and the threads that report on them
threadVars == <<proxy_stats, thread_pc, thread_local, reports>>

\* the loop of monitor() and the cycle of run_once inside it
loopVars == <<iteration, all_new, all_changes, notified, signals>>

\* the variables of the running service around the crawl
serviceVars == <<threadVars, loopVars>>

crawlVars == <<pc, page, monitorVars, backfillVars, engineVars, poolVars, serviceVars>>

-----------------------------------------------------------------------------
(* Bounds of the model *)

\* longest list of scraped records handed to one call
MaxBatch == 2
\* the store accepts calls while clock < MaxClock
MaxClock == 3

\* the external ids of two listings of the site; the store only tests ids for
\* equality
Ids == {"a1", "a2"}

\* extract_price returns a price with MIN_PRICE < price <= MAX_PRICE or None,
\* and both crawl strategies keep a parsed record only if apt['price'] and
\* apt['link'] are truthy: every record that reaches the store has a price >= 1.
\* The store only tests prices for truth and for equality.
Prices == {100, 250}

Records == [id : Ids, price : Prices]

\* lists of records of length 0..n
RECURSIVE SeqsUpTo(_, _)
SeqsUpTo(S, n) ==
    IF n = 0 THEN {<<>>}
    ELSE LET shorter == SeqsUpTo(S, n - 1)
         IN  shorter \cup {Append(s, x) : s \in {t \in shorter : Len(t) = n - 1}, x \in S}

RecordLists == SeqsUpTo(Records, MaxBatch)

NoCall == [op |-> "none"]

\* the store of a first start: the tables exist and are empty
EmptyStore ==
    /\ apartments = {}
    /\ price_history = <<>>
    /\ clock = 0

\* the keys host:port of the routes that can be configured
Keys == {"p1", "p2"}

\* Python's None
None == "None"

\* the threads that call fetch_page: the loop of monitor() and the thread
\* that cmd_scrape starts for run_once_quick
Threads == {"main", "scrape"}

\* no report has been made and no thread is inside one
IdleThreads ==
    /\ proxy_stats = [k \in Keys |-> [success |-> 0, fail |-> 0]]
    /\ thread_pc = [t \in Threads |-> "idle"]
    /\ thread_local = [t \in Threads |-> [proxy |-> None, loaded |-> 0]]
    /\ reports = [k \in Keys |-> [success |-> 0, fail |-> 0, since_success |-> 0]]

\* monitor() has not been entered
IdleLoop ==
    /\ iteration = 0
    /\ all_new = <<>>
    /\ all_changes = <<>>
    /\ notified = {}
    /\ signals = {}

\* the service outside the crawl is at rest
IdleService == IdleThreads /\ IdleLoop

\* the proxy manager while another component is exercised: no route
IdleProxies ==
    /\ proxies = <<>>
    /\ consecutive_fails = [k \in Keys |-> 0]
    /\ cooldown_proxies = <<>>
    /\ current_proxy_index = 0
    /\ datetime_now = 0

\* the value of a loop variable while its function is not running
NotRunning == -1

\* the names of the search urls that can be configured
Urls == {"u1", "u2"}

\* the monitor as __init__ leaves it on an empty store with the default url
IdleEngine ==
    /\ search_urls = <<"u1">>
    /\ needs_initial_scrape = TRUE
    /\ search = 1
    /\ strategy_runs = [u \in Urls |-> <<>>]
    /\ fetch_attempt = NotRunning
    /\ request_attempt = NotRunning
    /\ fetched = 0

\* no executor exists
IdlePool ==
    /\ batch_args = <<>>
    /\ running = {}
    /\ results = <<>>
    /\ requested = <<>>

\* no strategy is running
IdleCrawl ==
    /\ IdleEngine
    /\ IdlePool
    /\ IdleService
    /\ pc = "idle"
    /\ page = 1
    /\ consecutive_known = 0
    /\ all_apartments = <<>>
    /\ pending_apartments = <<>>
    /\ consecutive_empty_batches = 0

\* the variables of the components other than the store
notStoreVars == <<pacingVars, proxyVars, crawlVars>>

\* the variables of the components other than the pacing controller
notPacingVars == <<storeVars, proxyVars, crawlVars>>

\* the variables of the components other than the proxy manager
notProxyVars == <<storeVars, pacingVars, crawlVars>>

-----------------------------------------------------------------------------
(* database.py: the listing state store *)

\* Python truthiness of apt.get('price'): None and 0 are falsy
Truthy(price) == price # 0

\* SELECT ... FROM apartments WHERE id = ?
SelectById(table, id) == {row \in table : row.id = id}

StoredIds(table) == {row.id : row \in table}

\* the rows of price_history of one apartment, in insertion order
RECURSIVE HistoryOf(_, _)
HistoryOf(hist, id) ==
    IF hist = <<>> THEN <<>>
    ELSE LET rest == HistoryOf(SubSeq(hist, 1, Len(hist) - 1), id)
             last == hist[Len(hist)]
         IN  IF last.apartment_id = id THEN Append(rest, last.price) ELSE rest

\* a plausible slip: a plain INSERT, without the ON CONFLICT clause
InsertRowNoConflict(table, row) == table \cup {row}

\* INSERT INTO apartments ... ON CONFLICT(id) DO UPDATE SET ..., is_active = 1
UpsertRow(table, row) == {r \in table : r.id # row.id} \cup {row}

\* a plausible slip: a price_history row on every observation
RecordsPriceAlways(is_new, price_changed, price) == Truthy(price)

\* "if is_new or price_changed: if apt.get('price'):"
RecordsPrice(is_new, price_changed, price) ==
    (is_new \/ price_changed) /\ Truthy(price)

\* a plausible slip: the conflict branch leaves is_active alone
NewRowKeepFlag(table, apt, now) ==
    [id |-> apt.id, price |-> apt.price,
     is_active |-> IF SelectById(table, apt.id) = {} THEN 1
                   ELSE (CHOOSE r \in SelectById(table, apt.id) : TRUE).is_active,
     last_seen |-> now]

\* the row written by an upsert: the scraped fields, last_seen = now, is_active = 1
NewRow(table, apt, now) ==
    [id |-> apt.id, price |-> apt.price, is_active |-> 1, last_seen |-> now]

\* the effect of Database.upsert_apartment on the two tables, and its is_new
UpsertEffect(table, hist, apt, now) ==
    LET existing == SelectById(table, apt.id)
        is_new == existing = {}
        price_changed == \E row \in existing : row.price # apt.price
    IN  [table |-> UpsertRow(table, NewRow(table, apt, now)),
         hist |-> IF RecordsPrice(is_new, price_changed, apt.price)
                  THEN Append(hist, [apartment_id |-> apt.id, price |-> apt.price])
                  ELSE hist,
         is_new |-> is_new]

\* Database.upsert_apartment: returns (apt_id, is_new)
upsert_apartment(apt) ==
    /\ clock < MaxClock
    /\ LET done == UpsertEffect(apartments, price_history, apt, clock + 1)
       IN  /\ apartments' = done.table
           /\ price_history' = done.hist
           /\ ret' = [op |-> "upsert_apartment", apt_id |-> apt.id, is_new |-> done.is_new]
    /\ clock' = clock + 1
    /\ UNCHANGED notStoreVars

\* "seen_ids[apt['id']] = apt" for each record, then list(seen_ids.values()):
\* one record per id, at the place of the id's first occurrence, holding the
\* data of its last occurrence
UniqueApartments(apts) ==
    LET firsts == {i \in 1..Len(apts) : \A j \in 1..(i - 1) : apts[j].id # apts[i].id}
        lastOf(i) == CHOOSE j \in 1..Len(apts) :
                        /\ apts[j].id = apts[i].id
                        /\ \A k \in (j + 1)..Len(apts) : apts[k].id # apts[i].id
        RECURSIVE Build(_)
        Build(i) ==
            IF i > Len(apts) THEN <<>>
            ELSE IF i \in firsts THEN <<apts[lastOf(i)]>> \o Build(i + 1)
                 ELSE Build(i + 1)
    IN  Build(1)

\* sub-batch size of batch_upsert_apartments (batch_size: int = 500), scaled
\* down so that a batch of two ids is written in two sub-batches
batch_size == 1

\* executemany of the upsert statement over one sub-batch
RECURSIVE UpsertMany(_, _, _)
UpsertMany(table, batch, now) ==
    IF batch = <<>> THEN table
    ELSE UpsertMany(UpsertRow(table, NewRow(table, Head(batch), now)), Tail(batch), now)

\* a plausible slip: a price_history row for every record of the batch
BatchRecordsPriceAlways(table, apt) == Truthy(apt.price)

\* "if new_price: old_price = existing_prices.get(apt_id);
\*  if old_price is None or old_price != new_price"
BatchRecordsPrice(table, apt) ==
    /\ Truthy(apt.price)
    /\ \/ SelectById(table, apt.id) = {}
       \/ \E row \in SelectById(table, apt.id) : row.price # apt.price

\* price_history_data of one sub-batch, against the prices read before the write
RECURSIVE PriceHistoryData(_, _)
PriceHistoryData(table, batch) ==
    IF batch = <<>> THEN <<>>
    ELSE (IF BatchRecordsPrice(table, Head(batch))
          THEN <<[apartment_id |-> Head(batch).id, price |-> Head(batch).price]>>
          ELSE <<>>) \o PriceHistoryData(table, Tail(batch))

\* "for i in range(0, len(unique_apartments), batch_size)": the tables after
\* the remaining sub-batches have been written
RECURSIVE BatchLoop(_, _, _, _)
BatchLoop(table, hist, unique, now) ==
    IF unique = <<>> THEN [table |-> table, hist |-> hist]
    ELSE LET n == IF Len(unique) < batch_size THEN Len(unique) ELSE batch_size
             batch == SubSeq(unique, 1, n)
         IN  BatchLoop(UpsertMany(table, batch, now),
                       hist \o PriceHistoryData(table, batch),
                       SubSeq(unique, n + 1, Len(unique)), now)

\* Database.batch_upsert_apartments: one transaction, returns the count
batch_upsert_apartments(apts) ==
    /\ IF apts = <<>>
       THEN /\ ret' = [op |-> "batch_upsert_apartments", total |-> 0]
            /\ UNCHANGED storeVars
       ELSE /\ clock < MaxClock
            /\ LET unique == UniqueApartments(apts)
                   after == BatchLoop(apartments, price_history, unique, clock + 1)
               IN  /\ apartments' = after.table
                   /\ price_history' = after.hist
                   /\ ret' = [op |-> "batch_upsert_apartments", total |-> Len(unique)]
            /\ clock' = clock + 1
    /\ UNCHANGED notStoreVars

\* a plausible slip: every active row is deactivated
ToDeactivateAll(table, active_ids) == {row.id : row \in {r \in table : r.is_active = 1}}

\* "all_active - active_ids"
ToDeactivate(table, active_ids) ==
    {row.id : row \in {r \in table : r.is_active = 1}} \ active_ids

\* a plausible slip: a hard delete of the missing listings
DeletedRows(table, ids) == {row \in table : row.id \notin ids}

\* UPDATE apartments SET is_active = 0 WHERE id IN (...)
Deactivated(table, ids) ==
    {IF row.id \in ids THEN [row EXCEPT !.is_active = 0] ELSE row : row \in table}

\* Database.mark_apartments_inactive: returns the ids it deactivated
mark_apartments_inactive(active_ids) ==
    LET to_deactivate == ToDeactivate(apartments, active_ids)
    IN  /\ apartments' = Deactivated(apartments, to_deactivate)
        /\ ret' = [op |-> "mark_apartments_inactive", removed |-> to_deactivate]
        /\ UNCHANGED <<price_history, clock>>
        /\ UNCHANGED notStoreVars

-----------------------------------------------------------------------------
(* app.py: AdaptiveDelayManager, the pacing multiplier *)

\* most events that the trailing 24 hours hold
MaxEvents == 21
\* a multiplier is written with at most MaxDigits decimals
MaxDigits == 2

RECURSIVE Pow10(_)
Pow10(k) == IF k = 0 THEN 1 ELSE 10 * Pow10(k - 1)

\* A multiplier is the decimal number n / 10^k, kept without trailing zeros.
\* current_multiplier is a Python float; the products and the comparisons of
\* analyze_and_adapt are taken exactly here.
RECURSIVE Norm(_)
Norm(m) ==
    IF m.k > 0 /\ m.n % 10 = 0 THEN Norm([n |-> m.n \div 10, k |-> m.k - 1]) ELSE m

Dec(n, k) == Norm([n |-> n, k |-> k])

\* m * (tenths / 10)
Times(m, tenths) == Norm([n |-> m.n * tenths, k |-> m.k + 1])

Less(a, b) == a.n * Pow10(b.k) < b.n * Pow10(a.k)

MinOf(a, b) == IF Less(b, a) THEN b ELSE a

MaxOf(a, b) == IF Less(a, b) THEN b ELSE a

\* str(self.current_multiplier) and float(multiplier): the decimal text of a
\* float and its value, which Python's repr gives back exactly
Str(m) == <<m.n, m.k>>

Float(text) == Dec(text[1], text[2])

EventTypes == {"success", "rate_limit", "block", "error", "timeout"}

\* The tally of the rows of scrape_logs with created_at inside the window:
\* analyze_and_adapt reads the count of 'success', the sum of the counts of
\* 'block' and 'rate_limit', and the total.
TallyOf(event_type) ==
    IF event_type = "success" THEN "success"
    ELSE IF event_type \in {"rate_limit", "block"} THEN "problem"
    ELSE "other"

Total(stats) == stats.success + stats.problem + stats.other

\* db.log_scrape_event
Logged(stats, event_type) ==
    [stats EXCEPT ![TallyOf(event_type)] = @ + 1]

\* a plausible slip: the escalation without its cap
AdaptedNoCap(m, stats) ==
    LET total == Total(stats)
    IN  IF total < 5 THEN m
        ELSE IF 10 * stats.problem > 3 * total THEN Times(m, 15)
        ELSE IF 10 * stats.problem > total THEN Times(m, 12)
        ELSE IF 20 * stats.problem < total /\ 10 * stats.success > 9 * total
             THEN MaxOf(Dec(5, 1), Times(m, 9))
        ELSE m

\* a plausible slip: the thresholds compared with >= and <=
AdaptedInclusive(m, stats) ==
    LET total == Total(stats)
    IN  IF total < 5 THEN m
        ELSE IF 10 * stats.problem >= 3 * total THEN MinOf(Dec(5, 0), Times(m, 15))
        ELSE IF 10 * stats.problem >= total THEN MinOf(Dec(3, 0), Times(m, 12))
        ELSE IF 20 * stats.problem <= total /\ 10 * stats.success >= 9 * total
             THEN MaxOf(Dec(5, 1), Times(m, 9))
        ELSE m

\* AdaptiveDelayManager.analyze_and_adapt: the multiplier after the analysis.
\* problem_rate > 0.3 is 10 * problems > 3 * total, and so on.
Adapted(m, stats) ==
    LET total == Total(stats)
    IN  IF total < 5 THEN m
        ELSE IF 10 * stats.problem > 3 * total THEN MinOf(Dec(5, 0), Times(m, 15))
        ELSE IF 10 * stats.problem > total THEN MinOf(Dec(3, 0), Times(m, 12))
        ELSE IF 20 * stats.problem < total /\ 10 * stats.success > 9 * total
             THEN MaxOf(Dec(5, 1), Times(m, 9))
        ELSE m

\* a plausible slip: the analysis runs after every event
RecomputesAlways(event_type) == TRUE

\* "if event_type in ["rate_limit", "block"]: self.analyze_and_adapt()"
Recomputes(event_type) == event_type \in {"rate_limit", "block"}

\* AdaptiveDelayManager.log_event: the event is logged, and a rate limit or
\* a block is followed by analyze_and_adapt, which saves a changed multiplier
log_event(event_type) ==
    /\ Total(scrape_logs) < MaxEvents
    /\ LET stats == Logged(scrape_logs, event_type)
           m == IF Recomputes(event_type)
                THEN Adapted(current_multiplier, stats)
                ELSE current_multiplier
       IN  /\ m.k <= MaxDigits
           /\ scrape_logs' = stats
           /\ current_multiplier' = m
           /\ delay_multiplier' = IF m # current_multiplier THEN Str(m)
                                 ELSE delay_multiplier
    /\ ret' = [op |-> "log_event", event_type |-> event_type]
    /\ UNCHANGED notPacingVars

\* an event grows older than 24 hours: get_scrape_stats no longer counts it
Expire(tally) ==
    /\ scrape_logs[tally] > 0
    /\ scrape_logs' = [scrape_logs EXCEPT ![tally] = @ - 1]
    /\ ret' = [op |-> "expire"]
    /\ UNCHANGED <<current_multiplier, delay_multiplier, notPacingVars>>

\* AdaptiveDelayManager.__init__ and _load_strategy: 1.0, or the saved setting
Loaded(setting) == IF setting # None THEN Float(setting) ELSE Dec(1, 0)

\* the process is started again
Restart ==
    /\ current_multiplier' = Loaded(delay_multiplier)
    /\ ret' = [op |-> "restart"]
    /\ UNCHANGED <<scrape_logs, delay_multiplier, notPacingVars>>

\* the pacing state while another component is exercised
IdlePacing ==
    /\ scrape_logs = [success |-> 0, problem |-> 0, other |-> 0]
    /\ delay_multiplier = None
    /\ current_multiplier = Dec(1, 0)

\* The settings found at a start: none, or the multiplier that an earlier run
\* saved; 0.5 and 5.0 are the values that long calm and long trouble end in.
SavedAtStart == {None, Str(Dec(5, 1)), Str(Dec(5, 0))}

InitPacing ==
    /\ scrape_logs = [success |-> 0, problem |-> 0, other |-> 0]
    /\ delay_multiplier \in SavedAtStart
    /\ current_multiplier = Loaded(delay_multiplier)
    /\ EmptyStore
    /\ IdleProxies
    /\ IdleCrawl
    /\ ret = NoCall

NextPacing ==
    \/ \E event_type \in EventTypes : log_event(event_type)
    \/ \E tally \in {"success", "problem", "other"} : Expire(tally)
    \/ Restart

SpecPacing == InitPacing /\ [][NextPacing]_vars

InRange(m) == ~Less(m, Dec(5, 1)) /\ ~Less(Dec(5, 0), m)

\* C4: the multiplier in use and the saved multiplier are in [0.5, 5.0] after
\* any sequence of recorded outcomes, window expiries and restarts.
C4_MultiplierInRange ==
    /\ InRange(current_multiplier)
    /\ delay_multiplier # None => InRange(Float(delay_multiplier))

\* a block was recorded while more than 30% of the window were problems, and
\* the escalation stopped at the cap
C4_Witness ==
    /\ ret.op = "log_event"
    /\ ret.event_type = "block"
    /\ Total(scrape_logs) >= 5
    /\ 10 * scrape_logs.problem > 3 * Total(scrape_logs)
    /\ current_multiplier = Dec(5, 0)
    /\ delay_multiplier = Str(Dec(5, 0))

\* the value of x held between the bounds: x, but at most hi and at least lo
Capped(x, hi) == IF Less(hi, x) THEN hi ELSE x

Floored(x, lo) == IF Less(x, lo) THEN lo ELSE x

\* C14: a recompute (the analysis that follows a logged rate limit or block)
\* over the events of the window, the new one included, leaves m unchanged
\* with fewer than 5 events; otherwise with problems above 30% of the events
\* m becomes min(5.0, m * 1.5); else with problems above 10%, min(3.0, m * 1.2);
\* else with problems below 5% and successes above 90%, max(0.5, m * 0.9);
\* else m is unchanged.
C14_RecomputeRule ==
    [][(ret'.op = "log_event" /\ ret'.event_type \in {"rate_limit", "block"}) =>
          LET samples == Total(scrape_logs')
              problems == scrape_logs'.problem
              successes == scrape_logs'.success
              m == current_multiplier
          IN  current_multiplier' =
                 CASE samples < 5 -> m
                   [] samples >= 5 /\ 100 * problems > 30 * samples ->
                          Capped(Times(m, 15), Dec(5, 0))
                   [] samples >= 5 /\ 100 * problems <= 30 * samples
                                   /\ 100 * problems > 10 * samples ->
                          Capped(Times(m, 12), Dec(3, 0))
                   [] samples >= 5 /\ 100 * problems <= 10 * samples
                                   /\ 100 * problems < 5 * samples
                                   /\ 100 * successes > 90 * samples ->
                          Floored(Times(m, 9), Dec(5, 1))
                   [] OTHER -> m
      ]_vars

\* twenty successes and then a block: under 5% problems and over 90%
\* successes, the recompute has taken 1.0 down to 0.9 and saved it
C14_Witness ==
    /\ ret.op = "log_event"
    /\ ret.event_type = "block"
    /\ scrape_logs = [success |-> 20, problem |-> 1, other |-> 0]
    /\ current_multiplier = Dec(9, 1)
    /\ delay_multiplier = Str(Dec(9, 1))

\* C24: a recompute that follows a rate limit or a block while the problems
\* are more than 10% of the events of the window never lowers the multiplier,
\* whatever value in [0.5, 5.0] it has.
C24_ProblemsNeverLower ==
    [][(/\ ret'.op = "log_event"
        /\ ret'.event_type \in {"rate_limit", "block"}
        /\ 10 * scrape_logs'.problem > Total(scrape_logs'))
       => ~Less(current_multiplier', current_multiplier)
      ]_vars

\* C29: an event of a kind other than rate limit or block (success, server
\* error, timeout, network error) is added to the window and leaves the
\* multiplier and its saved value as they were; so the multiplier is lowered
\* only by the step that records a rate limit or a block.
C29_OtherKindsLeaveMultiplier ==
    [][/\ (ret'.op = "log_event" /\ ret'.event_type \notin {"rate_limit", "block"}) =>
              /\ scrape_logs' = Logged(scrape_logs, ret'.event_type)
              /\ current_multiplier' = current_multiplier
              /\ delay_multiplier' = delay_multiplier
       /\ Less(current_multiplier', current_multiplier) =>
              /\ ret'.op = "log_event"
              /\ ret'.event_type \in {"rate_limit", "block"}
      ]_vars

\* a fifth success was recorded in a calm window, where an analysis would
\* have lowered the multiplier: it is still 1.0 and nothing was saved
C29_Witness ==
    /\ ret.op = "log_event"
    /\ ret.event_type = "success"
    /\ scrape_logs = [success |-> 5, problem |-> 0, other |-> 0]
    /\ current_multiplier = Dec(1, 0)
    /\ delay_multiplier = None

-----------------------------------------------------------------------------
(* proxy_manager.py: ProxyManager, the health of the egress routes *)

\* consecutive failures counted for one route
MaxFails == 13
\* the latest reading of the clock, in minutes
MaxNow == 60

Range(list) == {list[i] : i \in 1..Len(list)}

MinInt(a, b) == IF a < b THEN a ELSE b

\* a plausible slip: the backoff without its cap
CooldownMinutesNoCap(fails) == 5 * fails

\* report_failure: cooldown_minutes = min(5 * stats['consecutive_fails'], 60)
CooldownMinutes(fails) == MinInt(5 * fails, 60)

\* {k: v for k, v in self.cooldown_proxies.items() if v > now}
Unexpired(cooldown, t) ==
    LET kept == {k \in DOMAIN cooldown : cooldown[k] > t}
    IN  [k \in kept |-> cooldown[k]]

\* cooldown[key] = until
WithCooldown(cooldown, key, until) ==
    [k \in DOMAIN cooldown \cup {key} |-> IF k = key THEN until ELSE cooldown[k]]

\* del cooldown[key]
WithoutCooldown(cooldown, key) ==
    [k \in DOMAIN cooldown \ {key} |-> cooldown[k]]

\* a plausible slip: the loop without the two health tests
RoundRobinNoSkip(list, fails, cooldown, index, attempts, t) ==
    [found |-> TRUE, proxy |-> list[index + 1],
     index |-> (index + 1) % Len(list), cooldown |-> cooldown]

\* The while loop of get_next_proxy from its attempts-th iteration on: the
\* route it returns, the cursor and the cooldowns it leaves.  The loop is
\* entered with index < Len(list).
RECURSIVE RoundRobin(_, _, _, _, _, _)
RoundRobin(list, fails, cooldown, index, attempts, t) ==
    IF attempts >= Len(list)
    THEN [found |-> FALSE, proxy |-> None, index |-> index, cooldown |-> cooldown]
    ELSE LET key == list[index + 1]
             next == (index + 1) % Len(list)
         IN  IF key \in DOMAIN cooldown
             THEN RoundRobin(list, fails, cooldown, next, attempts + 1, t)
             ELSE IF fails[key] >= 5
             THEN RoundRobin(list, fails, WithCooldown(cooldown, key, t + 30),
                             next, attempts + 1, t)
             ELSE [found |-> TRUE, proxy |-> key, index |-> next,
                   cooldown |-> cooldown]

\* a plausible slip: no fallback when every route is disqualified
FallbackNone(list) == {None}

\* random.choice(self.proxies)
Fallback(list) == Range(list)

\* ProxyManager.get_next_proxy.  self.proxies[self.current_proxy_index] raises
\* IndexError when the cursor is not an index of the list; the cooldowns are
\* cleaned by then.
get_next_proxy ==
    /\ IF proxies = <<>>
       THEN /\ ret' = [op |-> "get_next_proxy", proxy |-> None]
            /\ UNCHANGED <<cooldown_proxies, current_proxy_index>>
       ELSE LET cleaned == Unexpired(cooldown_proxies, datetime_now)
            IN  IF current_proxy_index >= Len(proxies)
                THEN /\ cooldown_proxies' = cleaned
                     /\ ret' = [op |-> "get_next_proxy", proxy |-> "IndexError"]
                     /\ UNCHANGED current_proxy_index
                ELSE LET loop == RoundRobin(proxies, consecutive_fails, cleaned,
                                            current_proxy_index, 0, datetime_now)
                     IN  /\ cooldown_proxies' = loop.cooldown
                         /\ current_proxy_index' = loop.index
                         /\ IF loop.found
                            THEN ret' = [op |-> "get_next_proxy", proxy |-> loop.proxy]
                            ELSE \E choice \in Fallback(proxies) :
                                    ret' = [op |-> "get_next_proxy", proxy |-> choice]
    /\ UNCHANGED <<proxies, consecutive_fails, datetime_now, notProxyVars>>

\* ProxyManager.report_success
report_success(proxy) ==
    /\ consecutive_fails' = [consecutive_fails EXCEPT ![proxy] = 0]
    /\ cooldown_proxies' = WithoutCooldown(cooldown_proxies, proxy)
    /\ ret' = [op |-> "report_success"]
    /\ UNCHANGED <<proxies, current_proxy_index, datetime_now, notProxyVars>>

\* ProxyManager.report_failure
report_failure(proxy) ==
    /\ consecutive_fails[proxy] < MaxFails
    /\ consecutive_fails' = [consecutive_fails EXCEPT ![proxy] = @ + 1]
    /\ cooldown_proxies' =
           WithCooldown(cooldown_proxies, proxy,
                        datetime_now + CooldownMinutes(consecutive_fails[proxy] + 1))
    /\ ret' = [op |-> "report_failure"]
    /\ UNCHANGED <<proxies, current_proxy_index, datetime_now, notProxyVars>>

\* ProxyManager.add_proxy: a route that is not in the list is appended
add_proxy(key) ==
    /\ proxies' = IF key \in Range(proxies) THEN proxies ELSE Append(proxies, key)
    /\ ret' = [op |-> "add_proxy"]
    /\ UNCHANGED <<consecutive_fails, cooldown_proxies, current_proxy_index, datetime_now,
                   notProxyVars>>

\* ProxyManager.remove_proxy: the route leaves the list and its stats are
\* deleted; the cursor and the cooldowns stay as they are
remove_proxy(key) ==
    /\ proxies' = SelectSeq(proxies, LAMBDA p : p # key)
    /\ consecutive_fails' = [consecutive_fails EXCEPT ![key] = 0]
    /\ ret' = [op |-> "remove_proxy"]
    /\ UNCHANGED <<cooldown_proxies, current_proxy_index, datetime_now, notProxyVars>>

\* half an hour passes between two calls
Tick ==
    /\ datetime_now + 30 <= MaxNow
    /\ datetime_now' = datetime_now + 30
    /\ ret' = [op |-> "tick"]
    /\ UNCHANGED <<proxies, consecutive_fails, cooldown_proxies,
                   current_proxy_index, notProxyVars>>

\* ProxyManager.__init__ with no proxies.json: the routes of PROXY_LIST
InitProxy ==
    /\ proxies \in {<<>>, <<"p1">>, <<"p1", "p2">>}
    /\ consecutive_fails = [k \in Keys |-> 0]
    /\ cooldown_proxies = <<>>
    /\ current_proxy_index = 0
    /\ datetime_now = 0
    /\ EmptyStore
    /\ IdlePacing
    /\ IdleCrawl
    /\ ret = NoCall

NextProxy ==
    \/ get_next_proxy
    \/ \E proxy \in Range(proxies) : report_success(proxy)
    \/ \E proxy \in Range(proxies) : report_failure(proxy)
    \/ \E key \in Keys : add_proxy(key)
    \/ \E key \in Keys : remove_proxy(key)
    \/ Tick

SpecProxy == InitProxy /\ [][NextProxy]_vars

\* the route is in cooldown at time t
InCooldown(cooldown, key, t) == key \in DOMAIN cooldown /\ cooldown[key] > t

\* the route is neither in cooldown nor at five consecutive failures
Healthy(key) ==
    /\ ~InCooldown(cooldown_proxies, key, datetime_now)
    /\ consecutive_fails[key] < 5

\* C5: the k-th consecutive failure of a route, with no success in between,
\* sets its cooldown to min(5k, 60) minutes from now, which does not decrease
\* with k and never exceeds 60; a success sets consecutive_fails to 0 and takes
\* the route out of cooldown.  consecutive_fails counts the streak: only
\* report_failure raises it, by one, and only report_success or the removal
\* of the route lowers it.
C5_CooldownBackoff ==
    [][\A p \in Keys :
        /\ (p \in Range(proxies) /\ report_failure(p)) =>
              LET k == consecutive_fails'[p]
                  d == cooldown_proxies'[p] - datetime_now
              IN  /\ k = consecutive_fails[p] + 1
                  /\ d = IF 5 * k < 60 THEN 5 * k ELSE 60
                  /\ d <= 60
                  /\ k > 1 => d >= (IF 5 * (k - 1) < 60 THEN 5 * (k - 1) ELSE 60)
        /\ (p \in Range(proxies) /\ report_success(p)) =>
              /\ consecutive_fails'[p] = 0
              /\ p \notin DOMAIN cooldown_proxies'
        /\ consecutive_fails'[p] > consecutive_fails[p] => ret'.op = "report_failure"
        /\ consecutive_fails'[p] < consecutive_fails[p] =>
              ret'.op \in {"report_success", "remove_proxy"}
      ]_vars

\* the thirteenth consecutive failure of a route has set the capped cooldown
C5_Witness ==
    /\ ret.op = "report_failure"
    /\ "p1" \in Range(proxies)
    /\ consecutive_fails["p1"] = 13
    /\ "p1" \in DOMAIN cooldown_proxies
    /\ cooldown_proxies["p1"] - datetime_now = 60

\* C8: get_next_proxy always answers: one of the configured routes when there
\* is at least one, the sentinel None when there is none.
C8_SelectAlwaysAnswers ==
    ret.op = "get_next_proxy" =>
        IF proxies = <<>> THEN ret.proxy = None ELSE ret.proxy \in Range(proxies)

\* C9: while some configured route is neither in cooldown nor at five
\* consecutive failures, get_next_proxy returns no route that is.
C9_NeverUnhealthyWhileHealthyExists ==
    [][(get_next_proxy /\ \E q \in Range(proxies) : Healthy(q)) =>
          (ret'.proxy \in Keys => Healthy(ret'.proxy))
      ]_vars

\* get_next_proxy has passed over the first route, in cooldown, and returned
\* the second
C9_Witness ==
    /\ ret.op = "get_next_proxy"
    /\ proxies = <<"p1", "p2">>
    /\ InCooldown(cooldown_proxies, "p1", datetime_now)
    /\ ret.proxy = "p2"
    /\ current_proxy_index = 0

-----------------------------------------------------------------------------
(* The store under any sequence of its three write operations *)

InitStore ==
    /\ EmptyStore
    /\ ret = NoCall
    /\ IdlePacing
    /\ IdleProxies
    /\ IdleCrawl

NextStore ==
    \/ \E apt \in Records : upsert_apartment(apt)
    \/ \E apts \in RecordLists : batch_upsert_apartments(apts)
    \/ \E active_ids \in SUBSET Ids : mark_apartments_inactive(active_ids)

SpecStore == InitStore /\ [][NextStore]_vars

-----------------------------------------------------------------------------
(* Properties of the store *)

RowOf(table, id) == CHOOSE row \in SelectById(table, id) : TRUE

IsPrefix(s, t) == Len(s) <= Len(t) /\ SubSeq(t, 1, Len(s)) = s

\* some listing that was active before the step is inactive or gone after it
SomeFlagCleared ==
    \E row \in apartments :
        /\ row.is_active = 1
        /\ \A after \in SelectById(apartments', row.id) : after.is_active # 1

\* C1: an upsert appends exactly one price_history row of its listing when it
\* creates the listing or its price differs from the price stored just before
\* the call, and none otherwise; a listing that is created has no earlier
\* row, so the rows of a listing count its creation plus its price changes.
C1_HistoryIffNewOrChanged ==
    [][\A apt \in Records :
          upsert_apartment(apt) =>
            LET existing == SelectById(apartments, apt.id)
                created == existing = {}
                differs == \E row \in existing : row.price # apt.price
                before == HistoryOf(price_history, apt.id)
                after == HistoryOf(price_history', apt.id)
            IN  /\ created => before = <<>>
                /\ after = IF created \/ differs THEN Append(before, apt.price) ELSE before
                /\ \A other \in Ids \ {apt.id} :
                      HistoryOf(price_history', other) = HistoryOf(price_history, other)
      ]_vars

\* an upsert of a stored listing has just appended the row of a changed price
C1_Witness ==
    /\ ret.op = "upsert_apartment"
    /\ ~ret.is_new
    /\ Len(HistoryOf(price_history, ret.apt_id)) >= 2
    /\ price_history[Len(price_history)] =
         [apartment_id |-> ret.apt_id, price |-> RowOf(apartments, ret.apt_id).price]

\* the last call was an upsert of this very record
JustUpserted(apt) ==
    /\ ret.op = "upsert_apartment"
    /\ ret.apt_id = apt.id
    /\ \E row \in SelectById(apartments, apt.id) :
          row.price = apt.price /\ row.last_seen = clock

\* C2: a second upsert of the same data right after the first appends no
\* price_history row (a listing created by the first call keeps its single
\* row), reports is_new = False, and both calls leave the listing active with
\* last_seen set to the time of the call.
C2_IdempotentUpsert ==
    [][\A apt \in Records :
          (JustUpserted(apt) /\ upsert_apartment(apt)) =>
            /\ ret'.is_new = FALSE
            /\ price_history' = price_history
            /\ ret.is_new => HistoryOf(price_history', apt.id) = <<apt.price>>
            /\ \A row \in SelectById(apartments, apt.id) :
                  row.is_active = 1 /\ row.last_seen = clock
            /\ \A row \in SelectById(apartments', apt.id) :
                  row.is_active = 1 /\ row.last_seen = clock' /\ clock' > clock
      ]_vars

\* two calls with the same data were made on an empty store: one listing, one
\* price_history row, last_seen at the second call
C2_Witness ==
    /\ ret.op = "upsert_apartment"
    /\ ~ret.is_new
    /\ clock = 2
    /\ Cardinality(apartments) = 1
    /\ Len(price_history) = 1
    /\ RowOf(apartments, ret.apt_id).last_seen = 2
    /\ RowOf(apartments, ret.apt_id).is_active = 1

\* C10: no step of the store removes a listing or a price_history row, and a
\* step that clears an is_active flag is a call of mark_apartments_inactive,
\* not of upsert_apartment and not of batch_upsert_apartments.
C10_NeverDeletedOnlyDeactivated ==
    [][/\ StoredIds(apartments) \subseteq StoredIds(apartments')
       /\ IsPrefix(price_history, price_history')
       /\ SomeFlagCleared => ret'.op = "mark_apartments_inactive"
       /\ ret'.op \in {"upsert_apartment", "batch_upsert_apartments"} => ~SomeFlagCleared
      ]_vars

\* a listing has been deactivated and its row and price history are still there
C10_Witness ==
    /\ ret.op = "mark_apartments_inactive"
    /\ \E row \in apartments :
          /\ row.id \in ret.removed
          /\ row.is_active = 0
          /\ HistoryOf(price_history, row.id) # <<>>

-----------------------------------------------------------------------------
(* app.py: the reconciliation step of an incremental run *)

\* MIN_RESULTS_FOR_REMOVAL (constants.py: 1000), scaled down
MIN_RESULTS_FOR_REMOVAL == 2

\* "active_ids.add(apt_id)" for every record
ActiveIds(apts) == {apts[i].id : i \in 1..Len(apts)}

\* "for apt in apartments: ... self.db.upsert_apartment(apt)": the tables after
\* the records have been upserted one by one, each at its own time
RECURSIVE UpsertEach(_, _, _, _)
UpsertEach(table, hist, apts, now) ==
    IF apts = <<>> THEN [table |-> table, hist |-> hist]
    ELSE LET done == UpsertEffect(table, hist, Head(apts), now + 1)
         IN  UpsertEach(done.table, done.hist, Tail(apts), now + 1)

\* "if len(apartments) >= MIN_RESULTS_FOR_REMOVAL"
RemovalAllowed(apts) == Len(apts) >= MIN_RESULTS_FOR_REMOVAL

\* Yad2Monitor.process_apartments: returns (new_apartments, price_changes, removed);
\* run_once calls it with the non-empty list of a monitoring scrape
process_apartments(apts) ==
    /\ apts # <<>>
    /\ clock + Len(apts) <= MaxClock
    /\ LET saved == UpsertEach(apartments, price_history, apts, clock)
           active_ids == ActiveIds(apts)
           removed == IF RemovalAllowed(apts)
                      THEN ToDeactivate(saved.table, active_ids)
                      ELSE {}
       IN  /\ apartments' = Deactivated(saved.table, removed)
           /\ price_history' = saved.hist
           /\ ret' = [op |-> "process_apartments", active_ids |-> active_ids,
                      removed |-> removed]
    /\ clock' = clock + Len(apts)
    /\ UNCHANGED notStoreVars

NextReconcile == \E apts \in RecordLists : process_apartments(apts)

SpecReconcile == InitStore /\ [][NextReconcile]_vars

\* C3: when the ids observed by the run are fewer than MIN_RESULTS_FOR_REMOVAL
\* distinct ids, the reconciliation step removes nothing: its removal set is
\* empty (and so no is_active flag is cleared).
C3_SkippedBelowFloor ==
    (ret.op = "process_apartments"
        /\ Cardinality(ret.active_ids) < MIN_RESULTS_FOR_REMOVAL)
    => ret.removed = {}

-----------------------------------------------------------------------------
(* app.py: Yad2Monitor.scrape_all_pages, the monitoring scrape with smart stop *)

\* constants.py has 50; scaled so that a few small pages reach it
CONSECUTIVE_KNOWN_THRESHOLD == 3
\* the page cap of scrape_all_pages, 20 in the source
max_pages == 3
\* most h2 elements on one result page
MaxPerPage == 2

\* What parse_apartment makes of the h2 elements of a page: a record with an
\* id and a price, the price 0 where none could be read.  The link is taken
\* to be present.
ParsedElements == [id : Ids, price : {0, 100}]

Pages == SeqsUpTo(ParsedElements, MaxPerPage)

\* db.get_apartment(apt['id']) is truthy
Existing(table, id) == SelectById(table, id) # {}

\* a plausible slip: a new listing does not reset the counter
ParsePageNoReset(table, h2_elements, i, all, known) ==
    LET valid == SelectSeq(h2_elements, LAMBDA apt : Truthy(apt.price))
        count == known +
                 Cardinality({n \in 1..Len(valid) : Existing(table, valid[n].id)})
    IN  [all_apartments |-> all \o valid, consecutive_known |-> count,
         stop |-> count >= CONSECUTIVE_KNOWN_THRESHOLD]

\* The for loop of scrape_all_pages over the elements of one page, from the
\* i-th element on: the list and the counter it leaves, and whether it
\* returned at the threshold.
RECURSIVE ParsePage(_, _, _, _, _)
ParsePage(table, h2_elements, i, all, known) ==
    IF i > Len(h2_elements)
    THEN [all_apartments |-> all, consecutive_known |-> known, stop |-> FALSE]
    ELSE LET apt == h2_elements[i]
         IN  IF ~Truthy(apt.price)
             THEN ParsePage(table, h2_elements, i + 1, all, known)
             ELSE IF Existing(table, apt.id)
             THEN IF known + 1 >= CONSECUTIVE_KNOWN_THRESHOLD
                  THEN [all_apartments |-> Append(all, apt),
                        consecutive_known |-> known + 1, stop |-> TRUE]
                  ELSE ParsePage(table, h2_elements, i + 1, Append(all, apt), known + 1)
             ELSE ParsePage(table, h2_elements, i + 1, Append(all, apt), 0)

\* scrape_all_pages is entered: its locals are initialised
StartMonitoring ==
    /\ pc \in {"idle", "done"}
    /\ pc' = "scrape_all_pages"
    /\ page' = 1
    /\ consecutive_known' = 0
    /\ all_apartments' = <<>>
    /\ ret' = [op |-> "start"]
    /\ UNCHANGED <<storeVars, pacingVars, proxyVars, backfillVars, engineVars, poolVars, serviceVars>>

\* One iteration of the while loop of scrape_all_pages: the page is fetched
\* and its elements are parsed.  No html or no element breaks the loop; the
\* threshold returns from inside the page; otherwise the next page follows
\* while page <= max_pages.
MonitorPage(h2_elements) ==
    /\ pc = "scrape_all_pages"
    /\ IF h2_elements = <<>>
       THEN /\ pc' = "done"
            /\ ret' = [op |-> "scrape_all_pages", stop |-> "break"]
            /\ UNCHANGED <<page, consecutive_known, all_apartments>>
       ELSE LET parsed == ParsePage(apartments, h2_elements, 1, all_apartments,
                                    consecutive_known)
            IN  /\ all_apartments' = parsed.all_apartments
                /\ consecutive_known' = parsed.consecutive_known
                /\ IF parsed.stop
                   THEN /\ pc' = "done"
                        /\ ret' = [op |-> "scrape_all_pages", stop |-> "smart stop"]
                        /\ UNCHANGED page
                   ELSE /\ page' = page + 1
                        /\ pc' = IF page + 1 <= max_pages
                                 THEN "scrape_all_pages" ELSE "done"
                        /\ ret' = [op |-> "scrape_all_pages", stop |-> "none"]
    /\ UNCHANGED <<storeVars, pacingVars, proxyVars, backfillVars, engineVars, poolVars, serviceVars>>

\* the rows of listings that earlier cycles stored
KnownRows(ids) == {[id |-> id, price |-> 100, is_active |-> 1, last_seen |-> 0] : id \in ids}

\* a monitoring cycle starts on a store that knows none, one or all listings
InitMonitor ==
    /\ apartments \in {KnownRows(ids) : ids \in SUBSET Ids}
    /\ price_history = <<>>
    /\ clock = 0
    /\ IdlePacing
    /\ IdleProxies
    /\ IdleCrawl
    /\ ret = NoCall

NextMonitor ==
    \/ StartMonitoring
    \/ \E h2_elements \in Pages : MonitorPage(h2_elements)

SpecMonitor == InitMonitor /\ [][NextMonitor]_vars

\* the length of the run of already stored listings that ends the list
RECURSIVE TrailingKnown(_, _)
TrailingKnown(table, list) ==
    IF list = <<>> \/ ~Existing(table, list[Len(list)].id)
    THEN 0
    ELSE 1 + TrailingKnown(table, SubSeq(list, 1, Len(list) - 1))

\* the first n listings of the list are all new and the next t all known
NewThenKnown(table, list, n, t) ==
    /\ Len(list) >= n + t
    /\ \A i \in 1..n : ~Existing(table, list[i].id)
    /\ \A i \in (n + 1)..(n + t) : Existing(table, list[i].id)

-----------------------------------------------------------------------------
(* app.py: Yad2Monitor.scrape_full_site, the initial scrape with periodic saves *)

\* pages per batch, 5 in the source
BATCH_SIZE == 2
\* the buffer is saved once it holds this many listings, 1000 in the source
SAVE_THRESHOLD == 2
\* constants.py has 800
MAX_PAGES_FULL_SITE == 5
\* most valid listings that the pages of one batch bring
MaxFetched == 1

\* the valid listings of the pages of one batch, in page order
FetchedBatches == SeqsUpTo(Records, MaxFetched)

otherThanBackfill == <<pacingVars, proxyVars, monitorVars, engineVars, serviceVars>>

\* scrape_full_site is entered by a process that has just started or has
\* finished a cycle: its locals are initialised
StartBackfill ==
    /\ pc \in {"idle", "done", "terminated"}
    /\ pc' = "fetch"
    /\ page' = 1
    /\ pending_apartments' = <<>>
    /\ consecutive_empty_batches' = 0
    /\ ret' = [op |-> "start"]
    /\ UNCHANGED <<storeVars, otherThanBackfill>>

\* The first half of an iteration of the while loop: the pages of the batch
\* are fetched, their valid listings extend the buffer, and two consecutive
\* batches without any listing break the loop.
FetchBatch(batch_apartments) ==
    /\ pc = "fetch"
    /\ pending_apartments' = pending_apartments \o batch_apartments
    /\ IF batch_apartments = <<>>
       THEN /\ consecutive_empty_batches' = consecutive_empty_batches + 1
            /\ pc' = IF consecutive_empty_batches + 1 >= 2
                     THEN "final_save" ELSE "periodic_save"
       ELSE /\ consecutive_empty_batches' = 0
            /\ pc' = "periodic_save"
    /\ ret' = [op |-> "fetch_batch"]
    /\ UNCHANGED <<page, storeVars, otherThanBackfill>>

\* db.batch_upsert_apartments(pending_apartments) inside try/except: it commits
\* the whole buffer, or it raises and its transaction is rolled back
Flush(ok, op) ==
    IF ok
    THEN /\ clock < MaxClock
         /\ LET unique == UniqueApartments(pending_apartments)
                after == BatchLoop(apartments, price_history, unique, clock + 1)
            IN  /\ apartments' = after.table
                /\ price_history' = after.hist
         /\ clock' = clock + 1
         /\ ret' = [op |-> op, outcome |-> "saved"]
    ELSE /\ ret' = [op |-> op, outcome |-> "failed"]
         /\ UNCHANGED storeVars

\* The second half of the iteration: the periodic save when the buffer has
\* reached SAVE_THRESHOLD, which clears the buffer unless it fails, then
\* page += BATCH_SIZE and the test of the while loop.
PeriodicSave(ok) ==
    /\ pc = "periodic_save"
    /\ IF Len(pending_apartments) >= SAVE_THRESHOLD
       THEN /\ Flush(ok, "periodic_save")
            /\ pending_apartments' = IF ok THEN <<>> ELSE pending_apartments
       ELSE /\ ok
            /\ ret' = [op |-> "periodic_save", outcome |-> "below threshold"]
            /\ UNCHANGED <<storeVars, pending_apartments>>
    /\ page' = page + BATCH_SIZE
    /\ pc' = IF page + BATCH_SIZE <= MAX_PAGES_FULL_SITE THEN "fetch" ELSE "final_save"
    /\ UNCHANGED <<consecutive_empty_batches, otherThanBackfill>>

\* After the loop: the remaining buffer is saved, and the function returns
\* whether or not the save failed
FinalSave(ok) ==
    /\ pc = "final_save"
    /\ IF pending_apartments # <<>>
       THEN Flush(ok, "final_save")
       ELSE /\ ok
            /\ ret' = [op |-> "final_save", outcome |-> "nothing pending"]
            /\ UNCHANGED storeVars
    /\ pending_apartments' = <<>>
    /\ pc' = "done"
    /\ UNCHANGED <<page, consecutive_empty_batches, otherThanBackfill>>

\* The process is killed between two steps of the run.  The locals live in
\* memory only; pending_apartments keeps what the buffer held at that moment.
Terminate ==
    /\ pc \in {"fetch", "periodic_save", "final_save"}
    /\ pc' = "terminated"
    /\ page' = 1
    /\ consecutive_empty_batches' = 0
    /\ ret' = [op |-> "terminate"]
    /\ UNCHANGED <<pending_apartments, storeVars, otherThanBackfill>>

InitBackfill == InitStore

NextBackfill ==
    \/ StartBackfill /\ UNCHANGED poolVars
    \/ \E batch_apartments \in FetchedBatches :
          FetchBatch(batch_apartments) /\ UNCHANGED poolVars
    \/ \E ok \in BOOLEAN : PeriodicSave(ok) /\ UNCHANGED poolVars
    \/ \E ok \in BOOLEAN : FinalSave(ok) /\ UNCHANGED poolVars
    \/ Terminate /\ UNCHANGED poolVars

SpecBackfill == InitBackfill /\ [][NextBackfill]_vars

\* the listing has a row and the row is active
PresentActive(table, id) == \E row \in table : row.id = id /\ row.is_active = 1

OneRowPerId(table) == \A r1, r2 \in table : r1.id = r2.id => r1 = r2

\* no listing has two successive price_history rows with the same price
NoRepeatedPrice(hist) ==
    \A id \in Ids :
        LET h == HistoryOf(hist, id)
        IN  \A i \in 1..(Len(h) - 1) : h[i] # h[i + 1]

\* the step is a save of the buffer that has committed
CompletedFlush == ret'.op \in {"periodic_save", "final_save"} /\ ret'.outcome = "saved"

\* C7, as stated: when a backfill run is terminated, no listing of the
\* unflushed buffer is in the store, no id has two rows and no listing has a
\* second price_history row for an unchanged price.
C7_BufferAbsentAtTermination ==
    /\ pc = "terminated" =>
          \A i \in 1..Len(pending_apartments) :
              pending_apartments[i].id \notin StoredIds(apartments)
    /\ OneRowPerId(apartments)
    /\ NoRepeatedPrice(price_history)

\* C7, amended: the store changes only in a save that commits, and that
\* save leaves every listing of the buffer present and active; a listing
\* that is present and active stays so through every later step of this and
\* of any further backfill run; a termination writes nothing, so a listing
\* of the unflushed buffer is in the store only if a committed save or an
\* earlier run stored it; no id ever has two rows and no listing a second
\* price_history row for an unchanged price.
C7_OnlyCommittedFlushesWrite ==
    /\ [](OneRowPerId(apartments) /\ NoRepeatedPrice(price_history))
    /\ [][/\ storeVars' # storeVars => CompletedFlush
          /\ CompletedFlush =>
                \A i \in 1..Len(pending_apartments) :
                    PresentActive(apartments', pending_apartments[i].id)
          /\ \A id \in Ids :
                PresentActive(apartments, id) => PresentActive(apartments', id)
          /\ pc' = "terminated" => UNCHANGED <<storeVars, pending_apartments>>
         ]_vars

\* a run was terminated with a2 in its buffer after two saves of a1 at the
\* same price had committed: a1 is stored once, active, with one history row
C7_Witness ==
    /\ pc = "terminated"
    /\ clock = 2
    /\ Len(pending_apartments) = 1
    /\ pending_apartments[1].id = "a2"
    /\ StoredIds(apartments) = {"a1"}
    /\ PresentActive(apartments, "a1")
    /\ Len(price_history) = 1

\* the step is a save of the buffer whose batch_upsert_apartments raised
FailedFlush == ret'.op \in {"periodic_save", "final_save"} /\ ret'.outcome = "failed"

\* C13: when the bulk save of the buffer fails, the records are saved one by
\* one instead, so every record of the buffer whose own upsert succeeds is in
\* the store after the step (upsert_apartment has no failure of its own in
\* this model: every record's own upsert would succeed).
C13_FailedFlushFallsBack ==
    [][FailedFlush =>
          \A i \in 1..Len(pending_apartments) :
              PresentActive(apartments', pending_apartments[i].id)
      ]_vars

\* C19: after every iteration of the loop (the batch is fetched, the
\* threshold is checked) the buffer holds fewer than SAVE_THRESHOLD listings,
\* whatever came of the earlier saves; between the fetch and the check it
\* holds at most that plus the listings of one batch.
C19_BufferBelowThreshold ==
    /\ pc \in {"fetch", "final_save"} => Len(pending_apartments) < SAVE_THRESHOLD
    /\ pc = "periodic_save" => Len(pending_apartments) < SAVE_THRESHOLD + MaxFetched

-----------------------------------------------------------------------------
(* app.py: scrape_full_site followed thread by thread through its executor *)

\* concurrent requests: 5 in the source, the same number as BATCH_SIZE
MAX_WORKERS == 2

\* What _fetch_page_for_batch returns for a page: no valid listing (also when
\* the request fails or the status is not 200), or the listings of the page.
\* The loop only tests the list for emptiness.
PageListings == {<<>>, <<[id |-> "a1", price |-> 100]>>}

\* a plausible slip: the range taken with its end included
BatchPagesEndIncluded == page..MinInt(page + BATCH_SIZE, MAX_PAGES_FULL_SITE + 1)

\* batch_pages = list(range(page, min(page + BATCH_SIZE, max_pages + 1)))
BatchPages == page..(MinInt(page + BATCH_SIZE, MAX_PAGES_FULL_SITE + 1) - 1)

\* the numbers of a set in ascending order
RECURSIVE Ascending(_)
Ascending(S) ==
    IF S = {} THEN <<>>
    ELSE LET least == CHOOSE x \in S : \A y \in S : x <= y
         IN  <<least>> \o Ascending(S \ {least})

\* scrape_full_site is entered: its locals are initialised, nothing is requested yet
StartFullSite ==
    /\ StartBackfill
    /\ batch_args' = <<>>
    /\ running' = {}
    /\ results' = <<>>
    /\ requested' = <<>>

\* "with ThreadPoolExecutor(max_workers=MAX_WORKERS) as executor:
\*      results = list(executor.map(self._fetch_page_for_batch, batch_args))":
\* the pages of the batch are queued in order
SubmitBatch ==
    /\ pc = "fetch"
    /\ pc' = "executor"
    /\ batch_args' = Ascending(BatchPages)
    /\ results' = <<>>
    /\ ret' = [op |-> "executor.map"]
    /\ UNCHANGED <<running, requested, page, backfillVars, storeVars, otherThanBackfill>>

\* a free worker of the pool takes the next page of the queue and starts
\* _fetch_page_for_batch on it
WorkerStart ==
    /\ pc = "executor"
    /\ batch_args # <<>>
    /\ Cardinality(running) < MAX_WORKERS
    /\ running' = running \cup {Head(batch_args)}
    /\ batch_args' = Tail(batch_args)
    /\ requested' = Append(requested, Head(batch_args))
    /\ ret' = [op |-> "_fetch_page_for_batch", page |-> Head(batch_args)]
    /\ UNCHANGED <<results, pc, page, backfillVars, storeVars, otherThanBackfill>>

\* _fetch_page_for_batch returns (page, apartments)
WorkerFinish(page_num, apts) ==
    /\ page_num \in running
    /\ running' = running \ {page_num}
    /\ results' = [p \in DOMAIN results \cup {page_num} |->
                      IF p = page_num THEN apts ELSE results[p]]
    /\ ret' = [op |-> "returned", page |-> page_num]
    /\ UNCHANGED <<batch_args, requested, pc, page, backfillVars, storeVars,
                   otherThanBackfill>>

\* a plausible slip: the results are collected without waiting for the workers
BatchCompleteNoWait == batch_args = <<>>

\* list(executor.map(...)) and the end of the with block return once every
\* page of the batch has been fetched
BatchComplete == batch_args = <<>> /\ running = {}

\* "for page_num, apts in results: if apts: batch_apartments.extend(apts)"
RECURSIVE Extended(_, _)
Extended(res, pages) ==
    IF pages = <<>> THEN <<>>
    ELSE res[Head(pages)] \o Extended(res, Tail(pages))

\* "pages_with_data += 1" for every page with listings
PagesWithData(res) == Cardinality({p \in DOMAIN res : res[p] # <<>>})

\* The rest of the first half of the iteration: the results are collected
\* in page order, the buffer is extended, and two consecutive batches without
\* a page with listings break the loop.
CollectBatch ==
    /\ pc = "executor"
    /\ BatchComplete
    /\ LET batch_apartments == Extended(results, Ascending(DOMAIN results))
       IN  pending_apartments' = pending_apartments \o batch_apartments
    /\ IF PagesWithData(results) = 0
       THEN /\ consecutive_empty_batches' = consecutive_empty_batches + 1
            /\ pc' = IF consecutive_empty_batches + 1 >= 2
                     THEN "final_save" ELSE "periodic_save"
       ELSE /\ consecutive_empty_batches' = 0
            /\ pc' = "periodic_save"
    /\ results' = <<>>
    /\ ret' = [op |-> "fetch_batch"]
    /\ UNCHANGED <<batch_args, running, requested, page, storeVars, otherThanBackfill>>

InitPool == InitStore

\* the steps of a run that has started
RunStep ==
    \/ SubmitBatch
    \/ WorkerStart
    \/ \E page_num \in running, apts \in PageListings : WorkerFinish(page_num, apts)
    \/ CollectBatch
    \/ \E ok \in BOOLEAN : PeriodicSave(ok) /\ UNCHANGED poolVars
    \/ \E ok \in BOOLEAN : FinalSave(ok) /\ UNCHANGED poolVars

NextPool ==
    \/ StartFullSite
    \/ SubmitBatch
    \/ WorkerStart
    \/ \E page_num \in running, apts \in PageListings : WorkerFinish(page_num, apts)
    \/ CollectBatch
    \/ \E ok \in BOOLEAN : PeriodicSave(ok) /\ UNCHANGED poolVars
    \/ \E ok \in BOOLEAN : FinalSave(ok) /\ UNCHANGED poolVars

SpecPool == InitPool /\ [][NextPool]_vars

\* every request ends (timeout=30) and every sleep is finite: a run that has
\* started always takes its next step
FairSpecPool == SpecPool /\ WF_vars(RunStep)

NoRepeat(seq) == \A i, j \in 1..Len(seq) : i # j => seq[i] # seq[j]

\* a run of scrape_full_site has started and has not returned
InsideRun == pc \in {"fetch", "executor", "periodic_save", "final_save"}

\* C18: a run of scrape_full_site always ends.  It requests only pages in
\* 1..MAX_PAGES_FULL_SITE and none twice.  The count of consecutive empty
\* batches goes up by one with a batch that has no page with listings and
\* back to 0 with any other batch; the run leaves the loop with pages still
\* unrequested exactly when that count reaches 2, and then requests nothing
\* more; otherwise it leaves the loop after the last page.
C18_BackfillTerminates ==
    /\ [](\A i \in 1..Len(requested) : requested[i] \in 1..MAX_PAGES_FULL_SITE)
    /\ [](NoRepeat(requested))
    /\ [][/\ (pc = "executor" /\ pc' # "executor") =>
                /\ consecutive_empty_batches' =
                      IF \A p \in DOMAIN results : results[p] = <<>>
                      THEN consecutive_empty_batches + 1 ELSE 0
                /\ pc' = "final_save" <=> consecutive_empty_batches' = 2
          /\ (pc = "periodic_save" /\ pc' = "final_save") =>
                Range(requested) = 1..MAX_PAGES_FULL_SITE
          /\ (pc # "final_save" /\ pc' = "final_save"
                /\ Range(requested) # 1..MAX_PAGES_FULL_SITE) =>
                consecutive_empty_batches' = 2
          /\ consecutive_empty_batches' = 2 =>
                requested' = requested /\ pc' \in {"final_save", "done"}
         ]_vars
    /\ InsideRun ~> (pc = "done")

\* two batches without a page with listings: the run has ended after page 4
C18_Witness ==
    /\ pc = "done"
    /\ consecutive_empty_batches = 2
    /\ requested = <<1, 2, 3, 4>>

\* C20: never more than MAX_WORKERS pages are being fetched; the pages in
\* the queue, in flight or fetched all belong to the batch of the current
\* iteration; and outside the with block of a batch nothing is queued or in
\* flight, so a batch is submitted only after the one before it has been
\* fetched completely.
C20_BoundedWorkers ==
    /\ Cardinality(running) <= MAX_WORKERS
    /\ Range(batch_args) \cup running \cup DOMAIN results \subseteq BatchPages
    /\ pc # "executor" => (running = {} /\ batch_args = <<>>)

\* the two pages of the second batch are in flight at once
C20_Witness ==
    /\ pc = "executor"
    /\ page = 1 + BATCH_SIZE
    /\ Cardinality(running) = MAX_WORKERS
    /\ batch_args = <<>>

-----------------------------------------------------------------------------
(* database_postgres.py: the store on PostgreSQL, used when DATABASE_URL is set *)

\* A row of the PostgreSQL table carries apartment_type as well.  The scraper
\* never sets the key (parse_apartment returns no 'apartment_type'), so
\* apt.get('apartment_type') is None in every record; init_database fills
\* the column of the stored rows from item_info when the process starts.
TypeFromItemInfo == "type from item_info"

\* init_database: "UPDATE apartments SET apartment_type = %s ..." for the
\* rows WHERE apartment_type IS NULL AND city IS NULL
PgBackfilled(table) ==
    {IF row.apartment_type = None
     THEN [row EXCEPT !.apartment_type = TypeFromItemInfo] ELSE row : row \in table}

\* the row of the INSERT statements: every column from the record
PgInsertedRow(apt, now) ==
    [id |-> apt.id, price |-> apt.price, apartment_type |-> None,
     is_active |-> 1, last_seen |-> now]

\* the UPDATE statement of upsert_apartment: apartment_type is not in its SET list
PgUpdatedRow(row, apt, now) ==
    [row EXCEPT !.price = apt.price, !.is_active = 1, !.last_seen = now]

\* the effect of PostgreSQLDatabase.upsert_apartment on the two tables
PgUpsertEffect(table, hist, apt, now) ==
    LET existing == SelectById(table, apt.id)
        is_new == existing = {}
        price_changed == \E row \in existing : row.price # apt.price
    IN  [table |-> IF is_new
                   THEN table \cup {PgInsertedRow(apt, now)}
                   ELSE {IF row.id = apt.id THEN PgUpdatedRow(row, apt, now) ELSE row :
                            row \in table},
         hist |-> IF RecordsPrice(is_new, price_changed, apt.price)
                  THEN Append(hist, [apartment_id |-> apt.id, price |-> apt.price])
                  ELSE hist,
         is_new |-> is_new]

\* PostgreSQLDatabase.upsert_apartment: returns (apt_id, is_new)
pg_upsert_apartment(apt) ==
    /\ clock < MaxClock
    /\ LET done == PgUpsertEffect(apartments, price_history, apt, clock + 1)
       IN  /\ apartments' = done.table
           /\ price_history' = done.hist
           /\ ret' = [op |-> "upsert_apartment", apt_id |-> apt.id, is_new |-> done.is_new]
    /\ clock' = clock + 1
    /\ UNCHANGED notStoreVars

\* execute_values of "INSERT ... ON CONFLICT (id) DO UPDATE SET ...,
\* apartment_type = EXCLUDED.apartment_type, ..." over one sub-batch
RECURSIVE PgUpsertMany(_, _, _)
PgUpsertMany(table, batch, now) ==
    IF batch = <<>> THEN table
    ELSE PgUpsertMany(UpsertRow(table, PgInsertedRow(Head(batch), now)), Tail(batch), now)

\* the loop over the sub-batches of PostgreSQLDatabase.batch_upsert_apartments
RECURSIVE PgBatchLoop(_, _, _, _)
PgBatchLoop(table, hist, unique, now) ==
    IF unique = <<>> THEN [table |-> table, hist |-> hist]
    ELSE LET n == IF Len(unique) < batch_size THEN Len(unique) ELSE batch_size
             batch == SubSeq(unique, 1, n)
         IN  PgBatchLoop(PgUpsertMany(table, batch, now),
                         hist \o PriceHistoryData(table, batch),
                         SubSeq(unique, n + 1, Len(unique)), now)

\* PostgreSQLDatabase.batch_upsert_apartments: one transaction, returns the count
pg_batch_upsert_apartments(apts) ==
    /\ IF apts = <<>>
       THEN /\ ret' = [op |-> "batch_upsert_apartments", total |-> 0]
            /\ UNCHANGED storeVars
       ELSE /\ clock < MaxClock
            /\ LET unique == UniqueApartments(apts)
                   after == PgBatchLoop(apartments, price_history, unique, clock + 1)
               IN  /\ apartments' = after.table
                   /\ price_history' = after.hist
                   /\ ret' = [op |-> "batch_upsert_apartments", total |-> Len(unique)]
            /\ clock' = clock + 1
    /\ UNCHANGED notStoreVars

\* PostgreSQLDatabase.mark_apartments_inactive
pg_mark_apartments_inactive(active_ids) ==
    LET to_deactivate == ToDeactivate(apartments, active_ids)
    IN  /\ apartments' = Deactivated(apartments, to_deactivate)
        /\ ret' = [op |-> "mark_apartments_inactive", removed |-> to_deactivate]
        /\ UNCHANGED <<price_history, clock>>
        /\ UNCHANGED notStoreVars

\* the process starts again: PostgreSQLDatabase.__init__ runs init_database
pg_init_database ==
    /\ apartments' = PgBackfilled(apartments)
    /\ ret' = [op |-> "init_database"]
    /\ UNCHANGED <<price_history, clock>>
    /\ UNCHANGED notStoreVars

NextPostgres ==
    \/ \E apt \in Records : pg_upsert_apartment(apt)
    \/ \E apts \in RecordLists : pg_batch_upsert_apartments(apts)
    \/ \E active_ids \in SUBSET Ids : pg_mark_apartments_inactive(active_ids)
    \/ pg_init_database

SpecPostgres == InitStore /\ [][NextPostgres]_vars

\* one upsert_apartment per record of the list, in order, all at the time now
RECURSIVE PgUpsertEach(_, _, _, _)
PgUpsertEach(table, hist, apts, now) ==
    IF apts = <<>> THEN [table |-> table, hist |-> hist]
    ELSE LET done == PgUpsertEffect(table, hist, Head(apts), now)
         IN  PgUpsertEach(done.table, done.hist, Tail(apts), now)

\* C11: from every store state and for every batch, batch_upsert_apartments
\* leaves the rows of apartments (with their is_active flags) and price_history
\* as one upsert_apartment per record of the batch deduplicated by id, last
\* occurrence kept, leaves them, and returns the number of distinct ids.
C11_BulkEqualsUpserts ==
    [][\A apts \in RecordLists :
          pg_batch_upsert_apartments(apts) =>
              LET each == PgUpsertEach(apartments, price_history,
                                       UniqueApartments(apts), clock + 1)
              IN  /\ apts # <<>> => apartments' = each.table
                  /\ apts # <<>> => price_history' = each.hist
                  /\ ret'.total = Cardinality({apts[i].id : i \in 1..Len(apts)})
      ]_vars

-----------------------------------------------------------------------------
(* app.py: Yad2Monitor.__init__ and run_once, the choice of the scrape method *)

\* INITIAL_SCRAPE_THRESHOLD (5000 in the source), scaled down
INITIAL_SCRAPE_THRESHOLD == 2
\* run_once is followed until a search url has been scraped MaxRuns times
MaxRuns == 2

\* _check_needs_initial_scrape: the count is taken over all rows of apartments,
\* whatever search url they came from; True when the count cannot be read
check_needs_initial_scrape(table, readable) ==
    IF readable THEN Cardinality(table) < INITIAL_SCRAPE_THRESHOLD ELSE TRUE

\* the search url of the running iteration of "for search in self.search_urls"
SearchUrl == search_urls[search]

\* the loop moves to the next search url; after the last one run_once returns
\* and the next cycle starts from the first
NextSearch == IF search = Len(search_urls) THEN 1 ELSE search + 1

Called(method) == [strategy_runs EXCEPT ![SearchUrl] = Append(@, method)]

\* One iteration of the loop of run_once while needs_initial_scrape is set:
\* scrape_full_site harvests apts and saves them with batch_upsert_apartments
\* (saved = FALSE: the save raised, which scrape_full_site only logs), then
\* the flag is cleared.
run_once_full_site(apts, saved) ==
    /\ needs_initial_scrape
    /\ Len(strategy_runs[SearchUrl]) < MaxRuns
    /\ IF saved /\ apts # <<>>
       THEN /\ clock < MaxClock
            /\ LET after == BatchLoop(apartments, price_history,
                                      UniqueApartments(apts), clock + 1)
               IN  /\ apartments' = after.table
                   /\ price_history' = after.hist
            /\ clock' = clock + 1
       ELSE UNCHANGED storeVars
    /\ needs_initial_scrape' = FALSE
    /\ strategy_runs' = Called("scrape_full_site")
    /\ search' = NextSearch
    /\ ret' = [op |-> "scrape_full_site", url |-> SearchUrl]
    /\ UNCHANGED <<search_urls, pacingVars, proxyVars, pc, page, monitorVars,
                   backfillVars, fetchVars, poolVars, serviceVars>>

\* One iteration of the loop of run_once while the flag is clear:
\* scrape_all_pages returns apts, which process_apartments reconciles when
\* the list is not empty.
run_once_all_pages(apts) ==
    /\ ~needs_initial_scrape
    /\ Len(strategy_runs[SearchUrl]) < MaxRuns
    /\ IF apts # <<>>
       THEN /\ clock + Len(apts) <= MaxClock
            /\ LET saved == UpsertEach(apartments, price_history, apts, clock)
                   removed == IF RemovalAllowed(apts)
                              THEN ToDeactivate(saved.table, ActiveIds(apts))
                              ELSE {}
               IN  /\ apartments' = Deactivated(saved.table, removed)
                   /\ price_history' = saved.hist
            /\ clock' = clock + Len(apts)
       ELSE UNCHANGED storeVars
    /\ strategy_runs' = Called("scrape_all_pages")
    /\ search' = NextSearch
    /\ ret' = [op |-> "scrape_all_pages", url |-> SearchUrl]
    /\ UNCHANGED <<search_urls, needs_initial_scrape, pacingVars, proxyVars, pc, page,
                   monitorVars, backfillVars, fetchVars, poolVars, serviceVars>>

\* The process stops between two iterations and is started again:
\* Yad2Monitor.__init__ computes the flag from the store and loads the urls.
StartProcess(readable) ==
    /\ needs_initial_scrape' = check_needs_initial_scrape(apartments, readable)
    /\ search' = 1
    /\ ret' = [op |-> "__init__"]
    /\ UNCHANGED <<search_urls, strategy_runs, storeVars, pacingVars, proxyVars, pc, page,
                   monitorVars, backfillVars, fetchVars, poolVars, serviceVars>>

\* a first start on an empty store with one or two search urls configured
InitCycle ==
    /\ EmptyStore
    /\ ret = NoCall
    /\ IdlePacing
    /\ IdleProxies
    /\ pc = "idle"
    /\ page = 1
    /\ consecutive_known = 0
    /\ all_apartments = <<>>
    /\ pending_apartments = <<>>
    /\ consecutive_empty_batches = 0
    /\ fetch_attempt = NotRunning
    /\ request_attempt = NotRunning
    /\ fetched = 0
    /\ IdlePool
    /\ IdleService
    /\ search_urls \in {<<"u1">>, <<"u1", "u2">>}
    /\ needs_initial_scrape = check_needs_initial_scrape(apartments, TRUE)
    /\ search = 1
    /\ strategy_runs = [u \in Urls |-> <<>>]

NextCycle ==
    \/ \E apts \in RecordLists, saved \in BOOLEAN : run_once_full_site(apts, saved)
    \/ \E apts \in RecordLists : run_once_all_pages(apts)
    \/ \E readable \in BOOLEAN : StartProcess(readable)

SpecCycle == InitCycle /\ [][NextCycle]_vars

\* the search url has been harvested by scrape_full_site
Harvested(runs, u) == \E i \in 1..Len(runs[u]) : runs[u][i] = "scrape_full_site"

\* C12: a search url is harvested by scrape_full_site at most once; while the
\* store holds fewer than INITIAL_SCRAPE_THRESHOLD listings, a search url that
\* was never harvested is not scraped by scrape_all_pages; and a completed
\* scrape_full_site leaves needs_initial_scrape clear.
C12_BackfillOnceBeforeMonitor ==
    [][/\ \A u \in Urls :
            Harvested(strategy_runs, u) =>
                strategy_runs'[u] # Append(strategy_runs[u], "scrape_full_site")
       /\ \A u \in Urls :
            (/\ ~Harvested(strategy_runs, u)
             /\ Cardinality(apartments) < INITIAL_SCRAPE_THRESHOLD)
            => strategy_runs'[u] # Append(strategy_runs[u], "scrape_all_pages")
       /\ (\E u \in Urls : strategy_runs'[u] = Append(strategy_runs[u], "scrape_full_site"))
            => ~needs_initial_scrape'
      ]_vars

-----------------------------------------------------------------------------
(* app.py: Yad2Monitor.fetch_page, and ProxyRotator.make_request below it *)

\* fetch_page(..., max_retries: int = 3, ...); no caller passes another value
max_retries == 3
\* make_request(..., max_retries: int = 3); fetch_page leaves the default
request_max_retries == 3
\* fetch_page is followed for this many calls
MaxFetches == 1

\* What one requests.get can come to: status 200 with a clean page, status
\* 200 with the "Are you for real" header, 429, a status >= 500, any other
\* status (403, 404, ...), requests.exceptions.Timeout, any other exception.
Responses == {"200", "challenge", "429", "5xx", "other_status", "timeout", "error"}

\* the event that fetch_page logs for what it sees of a direct request
DirectEvent(response) ==
    CASE response = "429" -> "rate_limit"
      [] response = "challenge" -> "block"
      [] response = "200" -> "success"
      [] response = "5xx" -> "error"
      [] response = "other_status" -> None
      [] response = "timeout" -> "timeout"
      [] response = "error" -> "error"

\* self.delay_manager.log_event(event_type, ...) called by fetch_page
Recorded(event_type) ==
    IF event_type = None THEN UNCHANGED pacingVars
    ELSE /\ Total(scrape_logs) < MaxEvents
         /\ LET stats == Logged(scrape_logs, event_type)
                m == IF event_type \in {"rate_limit", "block"}
                     THEN Adapted(current_multiplier, stats)
                     ELSE current_multiplier
            IN  /\ m.k <= MaxDigits
                /\ scrape_logs' = stats
                /\ current_multiplier' = m
                /\ delay_multiplier' = IF m # current_multiplier THEN Str(m)
                                      ELSE delay_multiplier

\* the call of fetch_page ends with the page
ReturnsPage(response, event, proxy) ==
    /\ fetch_attempt' = NotRunning
    /\ ret' = [op |-> "request", response |-> response, event |-> event,
               proxy |-> proxy, result |-> "page"]

\* a plausible slip: the budget counted one too far
ContinuesPastBudget(response, event, proxy) ==
    IF fetch_attempt + 1 <= max_retries
    THEN /\ fetch_attempt' = fetch_attempt + 1
         /\ ret' = [op |-> "request", response |-> response, event |-> event,
                    proxy |-> proxy, result |-> "retry"]
    ELSE /\ fetch_attempt' = NotRunning
         /\ ret' = [op |-> "request", response |-> response, event |-> event,
                    proxy |-> proxy, result |-> None]

\* "continue", or the end of the loop body: the next attempt, or "return None"
\* after the last one
Continues(response, event, proxy) ==
    IF fetch_attempt + 1 < max_retries
    THEN /\ fetch_attempt' = fetch_attempt + 1
         /\ ret' = [op |-> "request", response |-> response, event |-> event,
                    proxy |-> proxy, result |-> "retry"]
    ELSE /\ fetch_attempt' = NotRunning
         /\ ret' = [op |-> "request", response |-> response, event |-> event,
                    proxy |-> proxy, result |-> None]

\* fetch_page is called by a scrape
fetch_page ==
    /\ fetch_attempt = NotRunning
    /\ fetched < MaxFetches
    /\ fetch_attempt' = 0
    /\ fetched' = fetched + 1
    /\ ret' = [op |-> "fetch_page"]
    /\ UNCHANGED <<request_attempt, storeVars, pacingVars, proxyVars, pc, page,
                   monitorVars, backfillVars, cycleVars, poolVars, serviceVars>>

\* One attempt of fetch_page while no proxy is configured: requests.get, then
\* the tests of the response or the except clauses.
DirectRequest(response) ==
    /\ fetch_attempt # NotRunning
    /\ proxies = <<>>
    /\ Recorded(DirectEvent(response))
    /\ IF response = "200"
       THEN ReturnsPage(response, DirectEvent(response), None)
       ELSE Continues(response, DirectEvent(response), None)
    /\ UNCHANGED <<request_attempt, fetched, storeVars, proxyVars, pc, page,
                   monitorVars, backfillVars, cycleVars, poolVars, serviceVars>>

\* what get_next_proxy can return, with the cursor and the cooldowns it leaves
NextProxyChoices ==
    LET cleaned == Unexpired(cooldown_proxies, datetime_now)
        loop == RoundRobin(proxies, consecutive_fails, cleaned,
                           current_proxy_index, 0, datetime_now)
    IN  {[proxy |-> p, index |-> loop.index, cooldown |-> loop.cooldown] :
            p \in IF loop.found THEN {loop.proxy} ELSE Fallback(proxies)}

\* One iteration of the loop of make_request, called by an attempt of
\* fetch_page while proxies are configured: get_next_proxy, requests.get, the
\* report to the proxy manager, and, when make_request returns, what
\* fetch_page does with the response or with None.
ProxyRequest(response) ==
    /\ fetch_attempt # NotRunning
    /\ proxies # <<>>
    /\ current_proxy_index < Len(proxies)
    /\ \E next \in NextProxyChoices :
        LET proxy == next.proxy
            attempt == IF request_attempt = NotRunning THEN 0 ELSE request_attempt
        IN  /\ current_proxy_index' = next.index
            /\ IF response \in {"200", "challenge"}
               THEN /\ consecutive_fails' = [consecutive_fails EXCEPT ![proxy] = 0]
                    /\ cooldown_proxies' = WithoutCooldown(next.cooldown, proxy)
                    /\ request_attempt' = NotRunning
                    /\ Recorded(DirectEvent(response))
                    /\ IF response = "200"
                       THEN ReturnsPage(response, DirectEvent(response), proxy)
                       ELSE Continues(response, DirectEvent(response), proxy)
               ELSE /\ consecutive_fails[proxy] < MaxFails
                    /\ consecutive_fails' = [consecutive_fails EXCEPT ![proxy] = @ + 1]
                    /\ cooldown_proxies' =
                           WithCooldown(next.cooldown, proxy,
                                        datetime_now
                                            + CooldownMinutes(consecutive_fails[proxy] + 1))
                    /\ UNCHANGED pacingVars
                    /\ IF attempt + 1 < request_max_retries
                       THEN /\ request_attempt' = attempt + 1
                            /\ ret' = [op |-> "request", response |-> response,
                                       event |-> None, proxy |-> proxy,
                                       result |-> "retry"]
                            /\ UNCHANGED fetch_attempt
                       ELSE /\ request_attempt' = NotRunning
                            /\ Continues(response, None, proxy)
    /\ UNCHANGED <<proxies, datetime_now, fetched, storeVars, pc, page,
                   monitorVars, backfillVars, cycleVars, poolVars, serviceVars>>

InitFetch == InitProxy

Request ==
    \/ \E response \in Responses : DirectRequest(response)
    \/ \E response \in Responses : ProxyRequest(response)

NextFetch ==
    \/ fetch_page
    \/ \E response \in Responses : DirectRequest(response)
    \/ \E response \in Responses : ProxyRequest(response)

SpecFetch == InitFetch /\ [][NextFetch]_vars

\* the scheduling of fetch_page: a request returns or times out after 30
\* seconds and every sleep ends, so a running call always takes its next step
FairSpecFetch == SpecFetch /\ WF_vars(Request)

\* the step is a request of a running fetch_page
RequestStep == ret'.op = "request" /\ fetch_attempt # NotRunning

\* after the step the call has not returned the page: it goes on to another
\* attempt, or has ended in failure on the last one
Retried ==
    \/ ret'.result = "retry"
    \/ ret'.result = None /\ fetch_attempt = max_retries - 1

\* C15: in every request of fetch_page, with proxies configured or not, the
\* class of the response decides what is logged with the delay manager and
\* what the call does next: 429 is logged as rate_limit and retried, a 200
\* with the challenge header as block and retried, a clean 200 as success and
\* the page is returned, a status of 500 or more as error and retried.
C15_ResponseClassRecorded ==
    [][RequestStep =>
          /\ ret'.response = "429" =>
                /\ ret'.event = "rate_limit"
                /\ scrape_logs'.problem = scrape_logs.problem + 1
                /\ Retried
          /\ ret'.response = "challenge" =>
                /\ ret'.event = "block"
                /\ scrape_logs'.problem = scrape_logs.problem + 1
                /\ Retried
          /\ ret'.response = "200" =>
                /\ ret'.event = "success"
                /\ scrape_logs'.success = scrape_logs.success + 1
                /\ ret'.result = "page"
          /\ ret'.response = "5xx" =>
                /\ ret'.event = "error"
                /\ scrape_logs'.other = scrape_logs.other + 1
                /\ Retried
      ]_vars

\* C16: a call of fetch_page makes at most max_retries attempts and ends; it
\* returns the page in the step of the first clean 200, after which it makes
\* no attempt; it returns None only in the last attempt of the budget, none
\* of the attempts having brought a clean 200.
C16_FetchTerminates ==
    /\ [](fetch_attempt \in {NotRunning} \cup (0..(max_retries - 1)))
    /\ [](request_attempt \in {NotRunning} \cup (0..(request_max_retries - 1)))
    /\ [][RequestStep =>
             /\ ret'.response = "200" <=> ret'.result = "page"
             /\ ret'.result = "page" => fetch_attempt' = NotRunning
             /\ ret'.result = None =>
                   fetch_attempt = max_retries - 1 /\ fetch_attempt' = NotRunning
             /\ ret'.result = "retry" =>
                   \/ fetch_attempt' = fetch_attempt + 1 /\ request_attempt' = NotRunning
                   \/ /\ fetch_attempt' = fetch_attempt
                      /\ request_attempt' =
                            (IF request_attempt = NotRunning THEN 0 ELSE request_attempt) + 1
         ]_vars
    /\ (fetch_attempt # NotRunning) ~> (fetch_attempt = NotRunning)

\* three timeouts without a proxy: the third attempt has ended the call in failure
C16_Witness ==
    /\ ret.op = "request"
    /\ ret.response = "timeout"
    /\ ret.result = None
    /\ proxies = <<>>
    /\ fetch_attempt = NotRunning
    /\ scrape_logs.other = max_retries

\* C17: a request of fetch_page that ends in a timeout or a network error is
\* logged with the delay manager, counted as a failure of the route it went
\* through, and retried.
C17_TimeoutReportedToBoth ==
    [][(RequestStep /\ ret'.response \in {"timeout", "error"}) =>
          /\ ret'.event \in {"timeout", "error"}
          /\ scrape_logs'.other = scrape_logs.other + 1
          /\ ret'.proxy # None =>
                consecutive_fails'[ret'.proxy] = consecutive_fails[ret'.proxy] + 1
          /\ Retried
      ]_vars


-----------------------------------------------------------------------------
(* proxy_manager.py: report_success and report_failure called by two threads.
   monitor() calls fetch_page from the main thread, and cmd_scrape starts a
   thread that calls it through run_once_quick; both reach the one
   ProxyManager, which holds no lock.  A thread can be suspended between the
   read and the write of a statement that updates a counter. *)

\* the calls of report_success and report_failure followed
MaxReports == 3

\* the reports made so far, over all routes
ReportsMade ==
    LET RECURSIVE Sum(_)
        Sum(keys) == IF keys = {} THEN 0
                     ELSE LET k == CHOOSE x \in keys : TRUE
                          IN  reports[k].success + reports[k].fail + Sum(keys \ {k})
    IN  Sum(Keys)

\* a thread enters report_success or report_failure on a route it has used
report_call(t, proxy, outcome) ==
    /\ thread_pc[t] = "idle"
    /\ ReportsMade < MaxReports
    /\ thread_pc' = [thread_pc EXCEPT ![t] = outcome]
    /\ thread_local' = [thread_local EXCEPT ![t] = [proxy |-> proxy, loaded |-> 0]]
    /\ reports' = [reports EXCEPT ![proxy] =
                      IF outcome = "success"
                      THEN [@ EXCEPT !.success = @ + 1, !.since_success = 0]
                      ELSE [@ EXCEPT !.fail = @ + 1, !.since_success = @ + 1]]
    /\ UNCHANGED <<proxy_stats, ret, storeVars, pacingVars, proxyVars, pc, page,
                   monitorVars, backfillVars, engineVars, poolVars, loopVars>>

\* stats['success'] += 1 and stats['fail'] += 1: the counter is read
load_counter(t) ==
    /\ thread_pc[t] \in {"success", "fail"}
    /\ thread_local' = [thread_local EXCEPT ![t].loaded =
                           proxy_stats[thread_local[t].proxy][thread_pc[t]]]
    /\ thread_pc' = [thread_pc EXCEPT ![t] = @ \o "_store"]
    /\ UNCHANGED <<proxy_stats, reports, ret, storeVars, pacingVars, proxyVars, pc, page,
                   monitorVars, backfillVars, engineVars, poolVars, loopVars>>

\* stats['success'] += 1 and stats['fail'] += 1: the sum is stored
store_counter(t) ==
    /\ thread_pc[t] \in {"success_store", "fail_store"}
    /\ LET field == IF thread_pc[t] = "success_store" THEN "success" ELSE "fail"
       IN  proxy_stats' = [proxy_stats EXCEPT ![thread_local[t].proxy][field] =
                              thread_local[t].loaded + 1]
    /\ thread_pc' = [thread_pc EXCEPT ![t] =
                        IF @ = "success_store" THEN "reset" ELSE "streak"]
    /\ UNCHANGED <<thread_local, reports, ret, storeVars, pacingVars, proxyVars, pc, page,
                   monitorVars, backfillVars, engineVars, poolVars, loopVars>>

\* report_failure: stats.get('consecutive_fails', 0) has returned
load_consecutive_fails(t) ==
    /\ thread_pc[t] = "streak"
    /\ thread_local' = [thread_local EXCEPT ![t].loaded =
                           consecutive_fails[thread_local[t].proxy]]
    /\ thread_pc' = [thread_pc EXCEPT ![t] = "streak_store"]
    /\ UNCHANGED <<proxy_stats, reports, ret, storeVars, pacingVars, proxyVars, pc, page,
                   monitorVars, backfillVars, engineVars, poolVars, loopVars>>

\* report_failure: stats['consecutive_fails'] = ... + 1 is stored, the
\* cooldown is set from it and the call returns
store_consecutive_fails(t) ==
    /\ thread_pc[t] = "streak_store"
    /\ LET proxy == thread_local[t].proxy
           fails == thread_local[t].loaded + 1
       IN  /\ consecutive_fails' = [consecutive_fails EXCEPT ![proxy] = fails]
           /\ cooldown_proxies' = WithCooldown(cooldown_proxies, proxy,
                                               datetime_now + CooldownMinutes(fails))
    /\ thread_pc' = [thread_pc EXCEPT ![t] = "idle"]
    /\ ret' = [op |-> "report_failure"]
    /\ UNCHANGED <<proxy_stats, thread_local, reports, proxies, current_proxy_index,
                   datetime_now, storeVars, pacingVars, pc, page,
                   monitorVars, backfillVars, engineVars, poolVars, loopVars>>

\* report_success: stats['consecutive_fails'] = 0, the cooldown of the route
\* is deleted and the call returns
reset_consecutive_fails(t) ==
    /\ thread_pc[t] = "reset"
    /\ LET proxy == thread_local[t].proxy
       IN  /\ consecutive_fails' = [consecutive_fails EXCEPT ![proxy] = 0]
           /\ cooldown_proxies' = WithoutCooldown(cooldown_proxies, proxy)
    /\ thread_pc' = [thread_pc EXCEPT ![t] = "idle"]
    /\ ret' = [op |-> "report_success"]
    /\ UNCHANGED <<proxy_stats, thread_local, reports, proxies, current_proxy_index,
                   datetime_now, storeVars, pacingVars, pc, page,
                   monitorVars, backfillVars, engineVars, poolVars, loopVars>>

\* the service with one or two routes, before any request
InitThreads ==
    /\ proxies \in {<<"p1">>, <<"p1", "p2">>}
    /\ consecutive_fails = [k \in Keys |-> 0]
    /\ cooldown_proxies = <<>>
    /\ current_proxy_index = 0
    /\ datetime_now = 0
    /\ EmptyStore
    /\ IdlePacing
    /\ IdleCrawl
    /\ ret = NoCall

NextThreads ==
    \/ \E t \in Threads, proxy \in Range(proxies), outcome \in {"success", "fail"} :
          report_call(t, proxy, outcome)
    \/ \E t \in Threads : load_counter(t)
    \/ \E t \in Threads : store_counter(t)
    \/ \E t \in Threads : load_consecutive_fails(t)
    \/ \E t \in Threads : store_consecutive_fails(t)
    \/ \E t \in Threads : reset_consecutive_fails(t)

SpecThreads == InitThreads /\ [][NextThreads]_vars

\* no thread is inside a report
Quiescent == \A t \in Threads : thread_pc[t] = "idle"

-----------------------------------------------------------------------------
(* app.py: monitor(), the outer loop, around run_once in monitoring mode.
   The store can fail: its calls open a connection and run a statement, and
   neither scrape_all_pages nor process_apartments nor run_once catches what
   they raise. *)

\* the cycles of monitor() followed
MaxIterations == 2

\* what the notifier is handed: a new listing or a price change of a listing
Signals == [kind : {"new", "price_change"}, id : Ids, price : Prices]

\* the loop of process_apartments over the records: the tables, and the lists
\* new_apartments and price_changes, after the records given
RECURSIVE ProcessEach(_, _, _, _, _, _)
ProcessEach(table, hist, apts, now, new_apartments, price_changes) ==
    IF apts = <<>>
    THEN [table |-> table, hist |-> hist,
          new_apartments |-> new_apartments, price_changes |-> price_changes]
    ELSE LET apt == Head(apts)
             existing == SelectById(table, apt.id)
             done == UpsertEffect(table, hist, apt, now + 1)
             changed == \E row \in existing :
                            row.price # apt.price /\ Truthy(row.price) /\ Truthy(apt.price)
         IN  ProcessEach(done.table, done.hist, Tail(apts), now + 1,
                 IF done.is_new
                 THEN Append(new_apartments, [kind |-> "new", id |-> apt.id,
                                              price |-> apt.price])
                 ELSE new_apartments,
                 IF ~done.is_new /\ changed
                 THEN Append(price_changes, [kind |-> "price_change", id |-> apt.id,
                                             price |-> apt.price])
                 ELSE price_changes)

\* the records of process_apartments at whose upsert the store can raise; 0
\* when it raises at none
RaisePoints(apts) == 0..Len(apts)

\* "while True: try: iteration += 1 ... self.run_once()": a cycle starts
monitor_iteration ==
    /\ pc \in {"idle", "sleep"}
    /\ iteration < MaxIterations
    /\ iteration' = iteration + 1
    /\ pc' = "run_once"
    /\ search' = 1
    /\ all_new' = <<>>
    /\ all_changes' = <<>>
    /\ ret' = [op |-> "monitor"]
    /\ UNCHANGED <<notified, signals, storeVars, pacingVars, proxyVars, page,
                   monitorVars, backfillVars, search_urls, needs_initial_scrape,
                   strategy_runs, fetchVars, poolVars, threadVars>>

\* One pass of "for search in self.search_urls" in monitoring mode:
\* scrape_all_pages returns apts and process_apartments reconciles them, or
\* the store raises, inside scrape_all_pages or at the upsert of record
\* raised_at, and the exception leaves run_once with what was stored before it.
run_once_search(apts, scraped, raised_at) ==
    /\ pc = "run_once"
    /\ search <= Len(search_urls)
    /\ ~needs_initial_scrape
    /\ clock + Len(apts) <= MaxClock
    /\ IF ~scraped
       THEN /\ pc' = "except"
            /\ ret' = [op |-> "scrape_all_pages", url |-> SearchUrl, raised |-> TRUE]
            /\ UNCHANGED <<storeVars, search, all_new, all_changes, signals>>
       ELSE LET upto == IF raised_at = 0 THEN Len(apts) ELSE raised_at - 1
                stored == ProcessEach(apartments, price_history, SubSeq(apts, 1, upto),
                                      clock, <<>>, <<>>)
                removed == IF raised_at = 0 /\ RemovalAllowed(apts)
                           THEN ToDeactivate(stored.table, ActiveIds(apts))
                           ELSE {}
            IN  /\ apartments' = Deactivated(stored.table, removed)
                /\ price_history' = stored.hist
                /\ clock' = clock + upto
                /\ signals' = signals \cup Range(stored.new_apartments)
                                      \cup Range(stored.price_changes)
                /\ IF raised_at = 0
                   THEN /\ all_new' = all_new \o stored.new_apartments
                        /\ all_changes' = all_changes \o stored.price_changes
                        /\ search' = search + 1
                        /\ pc' = "run_once"
                        /\ ret' = [op |-> "scrape_all_pages", url |-> SearchUrl,
                                   raised |-> FALSE, active_ids |-> ActiveIds(apts)]
                   ELSE /\ pc' = "except"
                        /\ ret' = [op |-> "process_apartments", url |-> SearchUrl,
                                   raised |-> TRUE]
                        /\ UNCHANGED <<search, all_new, all_changes>>
    /\ UNCHANGED <<iteration, notified, pacingVars, proxyVars, page,
                   monitorVars, backfillVars, search_urls, needs_initial_scrape,
                   strategy_runs, fetchVars, poolVars, threadVars>>

\* run_once after its loop: "if all_new or all_changes:
\* self.send_notifications(all_new, all_changes)", then it returns to monitor,
\* which sleeps until the next cycle
run_once_return ==
    /\ pc = "run_once"
    /\ search > Len(search_urls)
    /\ notified' = notified \cup Range(all_new) \cup Range(all_changes)
    /\ pc' = "sleep"
    /\ ret' = [op |-> "run_once", new_count |-> Len(all_new),
               change_count |-> Len(all_changes)]
    /\ UNCHANGED <<iteration, all_new, all_changes, signals, search, storeVars,
                   pacingVars, proxyVars, page, monitorVars, backfillVars,
                   search_urls, needs_initial_scrape, strategy_runs, fetchVars,
                   poolVars, threadVars>>

\* "except Exception as e": the error is logged with the delay manager, which
\* inserts into scrape_logs; when that insert raises as well the exception
\* leaves monitor(), otherwise the loop sleeps and goes on
monitor_except(logged) ==
    /\ pc = "except"
    /\ IF logged
       THEN /\ scrape_logs' = Logged(scrape_logs, "error")
            /\ pc' = "sleep"
       ELSE /\ pc' = "stopped"
            /\ UNCHANGED scrape_logs
    /\ ret' = [op |-> "except", logged |-> logged]
    /\ UNCHANGED <<loopVars, search, storeVars, current_multiplier, delay_multiplier,
                   proxyVars, page, monitorVars, backfillVars, search_urls,
                   needs_initial_scrape, strategy_runs, fetchVars, poolVars, threadVars>>

\* monitor() is entered in monitoring mode with one or two search urls
InitLoop ==
    /\ EmptyStore
    /\ ret = NoCall
    /\ IdlePacing
    /\ IdleProxies
    /\ pc = "idle"
    /\ page = 1
    /\ consecutive_known = 0
    /\ all_apartments = <<>>
    /\ pending_apartments = <<>>
    /\ consecutive_empty_batches = 0
    /\ fetch_attempt = NotRunning
    /\ request_attempt = NotRunning
    /\ fetched = 0
    /\ IdlePool
    /\ IdleService
    /\ search_urls \in {<<"u1">>, <<"u1", "u2">>}
    /\ needs_initial_scrape = FALSE
    /\ search = 1
    /\ strategy_runs = [u \in Urls |-> <<>>]

NextLoop ==
    \/ monitor_iteration
    \/ \E apts \in RecordLists, scraped \in BOOLEAN :
          \E raised_at \in RaisePoints(apts) : run_once_search(apts, scraped, raised_at)
    \/ run_once_return
    \/ \E logged \in BOOLEAN : monitor_except(logged)

SpecLoop == InitLoop /\ [][NextLoop]_vars

\* C22: no error raised inside a strategy run, store errors included, leaves
\* the run: the call of scrape_all_pages made by the cycle returns a result,
\* and the outer loop is never left after a failure.
C22_RunContainsErrors ==
    /\ ret.op = "scrape_all_pages" => ~ret.raised
    /\ pc # "stopped"

\* monitor() runs on its own thread and each of its steps ends
FairSpecLoop == SpecLoop /\ WF_vars(NextLoop)

\* C27: every listing that a monitoring cycle inserts as new and every price
\* change that it stores is eventually handed to the notifier, also when a
\* later listing or a later search url of the same cycle raises an error.
C27_StoredChangesNotified ==
    \A s \in Signals : (s \in signals) ~> (s \in notified)

-----------------------------------------------------------------------------
(* Further properties of the proxy manager *)

\* C23: after any sequence of add_proxy, remove_proxy, get_next_proxy,
\* report_success and report_failure, whenever at least one route is
\* configured current_proxy_index is a valid index of the list of routes, so
\* that get_next_proxy does not fail.
C23_CursorValid ==
    proxies # <<>> => current_proxy_index < Len(proxies)

\* C28: failures alone never exclude a route for good: a route with five or
\* more consecutive failures is eligible again once its cooldown has expired,
\* so the round-robin pass of get_next_proxy that finds it at the cursor
\* returns it, also while other routes are healthy.
C28_EligibleAfterCooldown ==
    [][\A p \in Keys :
          (/\ ret'.op = "get_next_proxy"
           /\ current_proxy_index < Len(proxies)
           /\ proxies[current_proxy_index + 1] = p
           /\ consecutive_fails[p] >= 5
           /\ ~InCooldown(cooldown_proxies, p, datetime_now))
          => ret'.proxy = p
      ]_vars

-----------------------------------------------------------------------------
(* database.py: batch_upsert_apartments when a statement raises.  All
   statements of the call run on one connection inside "with
   self.get_connection() as conn"; nothing is committed inside the loop, and
   get_connection rolls the connection back when the block raises. *)

\* the statements of one pass of the loop, and the commit after the loop
Statements == {"select", "upsert", "price_history", "commit"}

\* the number of sub-batches of the loop over unique
SubBatches(unique) == (Len(unique) + batch_size - 1) \div batch_size

\* the sub-batch written by the i-th pass of the loop
SubBatch(unique, i) ==
    LET last == IF i * batch_size < Len(unique) THEN i * batch_size ELSE Len(unique)
    IN  SubSeq(unique, (i - 1) * batch_size + 1, last)

\* What the connection has written, uncommitted, when the statement of pass i
\* raises: the passes before i, and in pass i the upsert when it is the insert
\* into price_history that raises; everything when the commit raises.
Written(table, hist, unique, now, i, statement) ==
    LET upto == IF statement = "commit" THEN Len(unique) ELSE (i - 1) * batch_size
        before == BatchLoop(table, hist, SubSeq(unique, 1, upto), now)
    IN  IF statement = "price_history"
        THEN [table |-> UpsertMany(before.table, SubBatch(unique, i), now),
              hist |-> before.hist]
        ELSE before

\* a plausible slip: a commit at the end of every pass of the loop, so that
\* the rollback only undoes the pass that raised
RolledBackToLastPass(table, hist, unique, now, i, statement) ==
    IF statement = "commit" THEN [table |-> table, hist |-> hist]
    ELSE BatchLoop(table, hist, SubSeq(unique, 1, (i - 1) * batch_size), now)

\* get_connection: "except Exception as e: conn.rollback(); raise e": the
\* tables as they were at the last commit, which is before the call
RolledBack(table, hist, unique, now, i, statement) ==
    [table |-> table, hist |-> hist]

\* Database.batch_upsert_apartments raising at a statement of its i-th pass
batch_upsert_apartments_raises(apts, i, statement) ==
    /\ apts # <<>>
    /\ clock < MaxClock
    /\ LET unique == UniqueApartments(apts)
       IN  /\ i \in 1..SubBatches(unique)
           /\ LET left == RolledBack(apartments, price_history, unique, clock + 1,
                                     i, statement)
              IN  /\ apartments' = left.table
                  /\ price_history' = left.hist
                  /\ ret' = [op |-> "batch_upsert_apartments raises",
                             written |-> Written(apartments, price_history, unique,
                                                 clock + 1, i, statement).table]
    /\ clock' = clock + 1
    /\ UNCHANGED notStoreVars

NextTransaction ==
    \/ \E apt \in Records : upsert_apartment(apt)
    \/ \E apts \in RecordLists : batch_upsert_apartments(apts)
    \/ \E apts \in RecordLists, i \in 1..MaxBatch, statement \in Statements :
          batch_upsert_apartments_raises(apts, i, statement)

SpecTransaction == InitStore /\ [][NextTransaction]_vars

FlagOf(table, id) == {row.is_active : row \in SelectById(table, id)}

\* C26: with several search urls in one cycle, reconciling the listings of
\* one of them leaves is_active unchanged for every listing observed only
\* under another: a listing that an earlier search url of the cycle inserted
\* as new, and that the run of the present search url did not return, keeps
\* its flag.
C26_OtherSourcesUntouched ==
    [][(/\ pc = "run_once"
        /\ ret'.op = "scrape_all_pages"
        /\ ~ret'.raised
        /\ search' = search + 1)
       => \A s \in Range(all_new) :
             s.id \notin ret'.active_ids =>
                FlagOf(apartments', s.id) = FlagOf(apartments, s.id)
      ]_vars

-----------------------------------------------------------------------------
(* app.py: a monitoring run followed by its reconciliation, as run_once
   chains them: scrape_all_pages, then process_apartments on what it returned *)

\* The listings that the site shows on pages after the last page that the run
\* fetched: any listings that the run did not return.
BeyondStop(all) == SUBSET (Ids \ ActiveIds(all))

\* "if apartments: ... self.process_apartments(apartments)" after
\* scrape_all_pages has returned; beyond are the listings of the later pages
ReconcileRun(beyond) ==
    /\ pc = "done"
    /\ all_apartments # <<>>
    /\ clock + Len(all_apartments) <= MaxClock
    /\ LET saved == UpsertEach(apartments, price_history, all_apartments, clock)
           active_ids == ActiveIds(all_apartments)
           removed == IF RemovalAllowed(all_apartments)
                      THEN ToDeactivate(saved.table, active_ids)
                      ELSE {}
       IN  /\ apartments' = Deactivated(saved.table, removed)
           /\ price_history' = saved.hist
           /\ ret' = [op |-> "process_apartments", active_ids |-> active_ids,
                      removed |-> removed, beyond |-> beyond, pages |-> page]
    /\ clock' = clock + Len(all_apartments)
    /\ pc' = "idle"
    /\ UNCHANGED <<page, monitorVars, pacingVars, proxyVars, backfillVars, engineVars,
                   poolVars, serviceVars>>

NextIncremental ==
    \/ StartMonitoring
    \/ \E h2_elements \in Pages : MonitorPage(h2_elements)
    \/ \E beyond \in BeyondStop(all_apartments) : ReconcileRun(beyond)

SpecIncremental == InitMonitor /\ [][NextIncremental]_vars

\* C25: a monitoring run that ended early (smart stop, page cap, empty page,
\* no page after the retries) never deactivates a listing that was active and
\* lay beyond the point where it stopped: none of the listings of the pages
\* that were not fetched is among those that its reconciliation removes.
C25_BeyondStopKept ==
    ret.op = "process_apartments" => ret.removed \cap ret.beyond = {}
=============================================================================
